---- MODULE Spec2Model ----
(***************************************************************************)
(* The analysis job pipeline of AI Govern: queueAnalysisJob creates an     *)
(* Analysis record and adds a job to the queue, the queue's processJob    *)
(* runs the handler registered by initAnalysisProcessor, and the handler   *)
(* moves the Analysis through its statuses, stores a result artifact and   *)
(* writes activity (audit) entries.  The document upload path             *)
(* (processDocumentAnalysis) drives an Analysis without the queue.         *)
(* Every await of the code is a step boundary: steps of different          *)
(* requests and jobs interleave.                                           *)
(***************************************************************************)
EXTENDS Integers, Sequences, FiniteSets, Bags, TLC

\* ------------------------------------------------------------------ bounds
\* requests (queueAnalysisJob / handleFileUpload calls) in one behaviour
MaxAnalyses == 1
\* store / object-storage calls that throw in one behaviour
MaxStoreFaults == 2
\* requests in one behaviour of the two-request specification
MaxPair == 2
\* jobs added to the queue directly (analysisQueue.add) in one behaviour of
\* the delivery specification
MaxDirectAdds == 1
\* the most rows of a record set given to the analyzer
MaxRows == 3
\* the longest text a match is taken from
MaxText == 36
\* the most documents of one batch
MaxDocuments == 3
\* the most rows of a one-column record set
MaxColumnRows == 10

\* ------------------------------------------------------- program constants
\* queue.ts defaultJobOptions
DefaultAttempts == 3
DefaultBackoffDelay == 5000
\* InMemoryQueue.processJob: job.opts.backoff?.delay || 1000
FallbackDelay == 1000

\* the statuses of an Analysis
Terminal == {"completed", "failed"}
NonTerminal == {"pending", "queued", "processing"}

\* ------------------------------------------------------------ environment
\* Rows of the datasets table and the objects they point at.  content is the
\* object's text: its format and the value its parser yields.
Datasets ==
  [ id \in 1..4 |->
      CASE id = 1 -> [tenantId |-> 1, fileType |-> "text/csv", hasS3 |-> TRUE,
                      content |-> [text |-> "csv", value |-> "array"]]
        [] id = 2 -> [tenantId |-> 1, fileType |-> "application/json", hasS3 |-> TRUE,
                      content |-> [text |-> "json", value |-> "emptyArray"]]
        [] id = 3 -> [tenantId |-> 1, fileType |-> "application/pdf", hasS3 |-> TRUE,
                      content |-> [text |-> "binary", value |-> "none"]]
        [] id = 4 -> [tenantId |-> 1, fileType |-> "text/csv", hasS3 |-> TRUE,
                      content |-> [text |-> "csv", value |-> "emptyArray"]] ]

\* Rows of webhook_data joined with their webhook's tenant.
WebhookDataRows ==
  [ id \in 1..3 |->
      CASE id = 1 -> [tenantId |-> 1, payload |-> "object"]
        [] id = 2 -> [tenantId |-> 2, payload |-> "array"]
        [] id = 3 -> [tenantId |-> 1, payload |-> "emptyArray"] ]

\* The argument of queueAnalysisJob; 0 stands for an absent (undefined) id.
Options(src, ds, wh, type, tenant, user) ==
  [source |-> src, datasetId |-> ds, webhookDataId |-> wh, analysisType |-> type,
   tenantId |-> tenant, initiatedById |-> user]

RequestOptions ==
  { Options("upload", 1, 0, "bias_analysis", 1, 7),
    Options("upload", 2, 0, "bias_analysis", 1, 7),
    Options("upload", 3, 0, "bias_analysis", 1, 7),
    Options("upload", 3, 0, "pii_detection", 1, 7),
    Options("upload", 4, 0, "bias_analysis", 1, 7),
    Options("upload", 1, 0, "toxicity", 1, 7),
    Options("upload", 1, 0, "bias_analysis", 2, 8),
    Options("upload", 0, 0, "bias_analysis", 1, 7),
    Options("webhook", 0, 1, "bias_analysis", 1, 7),
    Options("webhook", 0, 2, "bias_analysis", 1, 7),
    Options("webhook", 0, 3, "bias_analysis", 1, 7),
    Options("webhook", 0, 0, "bias_analysis", 1, 7) }

\* The options a job is added with: none (InMemoryQueue.add(jobData)), or the
\* defaultJobOptions of queue.ts.
NoJobOptions == [attempts |-> 0, backoffType |-> "none", delay |-> 0]
DefaultJobOptions ==
  [attempts |-> DefaultAttempts, backoffType |-> "exponential", delay |-> DefaultBackoffDelay]
JobOptions == {NoJobOptions, DefaultJobOptions}

\* options a caller of InMemoryQueue.add may give: a fixed backoff, and an
\* exponential backoff whose base delay is 0
FixedJobOptions == [attempts |-> 2, backoffType |-> "fixed", delay |-> DefaultBackoffDelay]
ZeroDelayJobOptions == [attempts |-> 2, backoffType |-> "exponential", delay |-> 0]
AddOptions == JobOptions \cup {FixedJobOptions, ZeroDelayJobOptions}

\* --------------------------------------------------------- error messages
ErrNotFound == "Analysis record not found for tenant"
ErrDataset == "Dataset not found for analysis"
ErrWebhook == "Webhook data not found"
ErrInvalidJob == "Invalid job data: Missing required fields for S3 or Webhook."
ErrType == "Unsupported analysis type"
ErrEmpty == "Input data is empty"
ErrShape == "Input data must be an array or object"
ErrParse == "Unexpected token in JSON"
ErrS3 == "S3 fetch failed"
ErrStore == "store unavailable"
ErrQueueDataset == "Cannot queue analysis: Dataset not found or missing S3 info."
ErrQueueWebhook == "Webhook source requires webhookDataId."
ErrFs == "results file write failed"

VARIABLES
  analyses,      \* the analyses table: analyses[id] is the row with that id
  activities,    \* the activities table, a bag of rows
  artifacts,     \* result artifacts written (object storage keys, result files)
  jobs,          \* InMemoryQueue.jobs: jobs[n] is job "analysis-jobs-n"
  procs,         \* procs[id]: the request that created analysis id, and its position
  faults,        \* store / object storage calls that have thrown so far
  clock,         \* Date.now()
  resultsBucket, \* S3_RESULTS_BUCKET_NAME is set
  jobOptions,    \* the options the queue gives a job added without any
  processors,    \* InMemoryQueue.processors: the number of registered handlers
  limit,         \* the number of requests one behaviour holds
  direct,        \* direct analysisQueue.add calls still to come
  records,       \* the parsed record array an analyzer call is given
  impact,        \* what calculateDisparateImpact returned for records
  report,        \* what the handler's analyzeBias call returned for records
  match,         \* a regular-expression match in a text, and its context snippet
  batch,         \* a list of extracted documents, and detectPiiInDocuments' result
  sync           \* a processData call: its options, its position, the rows it made

\* the state of the PII detector
detector == <<match, batch>>
vars == <<analyses, activities, artifacts, jobs, procs, faults, clock, resultsBucket,
          jobOptions, processors, limit, direct, records, impact, report, detector, sync>>
env == <<resultsBucket, jobOptions, limit, direct, records, impact, report, detector, sync>>

\* ----------------------------------------------------------------- storage
\* the values of the resultsPath column and of updateAnalysisStatus's third
\* argument: null, an object-storage locator, a result file, or a message
NullPath == [kind |-> "null", tenantId |-> 0, analysisId |-> 0, ts |-> 0, text |-> ""]
S3Path(tenantId, analysisId, ts) ==
  [kind |-> "s3", tenantId |-> tenantId, analysisId |-> analysisId, ts |-> ts, text |-> ""]
FilePath(tenantId, analysisId) ==
  [kind |-> "file", tenantId |-> tenantId, analysisId |-> analysisId, ts |-> 0, text |-> ""]
Message(text) ==
  [kind |-> "text", tenantId |-> 0, analysisId |-> 0, ts |-> 0, text |-> text]

\* DatabaseStorage.createAnalysis: status is always 'pending'
NewAnalysis(o) ==
  [tenantId |-> o.tenantId, initiatedById |-> o.initiatedById,
   analysisType |-> o.analysisType, status |-> "pending",
   resultsPath |-> NullPath, completedAt |-> FALSE]

\* DatabaseStorage.getAnalysis(id, tenantId): the row, filtered by tenant
NoRecord == [found |-> FALSE, status |-> "none", tenantId |-> 0, initiatedById |-> 0]
GetAnalysis(id, tenantId) ==
  IF id \in DOMAIN analyses /\ analyses[id].tenantId = tenantId
    THEN [found |-> TRUE, status |-> analyses[id].status,
          tenantId |-> analyses[id].tenantId,
          initiatedById |-> analyses[id].initiatedById]
    ELSE NoRecord

\* DatabaseStorage.getDataset(id, tenantId)
DatasetFound(id, tenantId) ==
  id \in DOMAIN Datasets /\ Datasets[id].tenantId = tenantId

\* DatabaseStorage.getWebhookDataById(id, tenantId)
WebhookDataFound(id, tenantId) ==
  id \in DOMAIN WebhookDataRows /\ WebhookDataRows[id].tenantId = tenantId

\* DatabaseStorage.updateAnalysisStatus(id, status, resultsPath): the table after
\* the update.  The row is selected by id alone; resultsPath is used only for
\* 'completed'; 'completed' and 'failed' stamp completedAt.
UpdateAnalysisStatus(id, status, path) ==
  IF id \notin DOMAIN analyses THEN analyses
  ELSE [analyses EXCEPT ![id] =
          IF status = "completed"
            THEN [@ EXCEPT !.status = status, !.resultsPath = path, !.completedAt = TRUE]
          ELSE IF status = "failed"
            THEN [@ EXCEPT !.status = status, !.completedAt = TRUE]
          ELSE [@ EXCEPT !.status = status]]

\* DatabaseStorage.logActivity: one more row
Activity(action, entityId, tenantId, userId) ==
  [action |-> action, entityId |-> entityId, tenantId |-> tenantId, userId |-> userId]
LogActivity(row) == activities (+) SetToBag({row})

\* a store or object-storage call may throw while the fault budget lasts
CanFault == faults < MaxStoreFaults

\* JavaScript's a || b on ids (0 is falsy)
Or(a, b) == IF a # 0 THEN a ELSE b

\* ---------------------------------------------------------------- analyzer
NoInput == [isString |-> FALSE, text |-> "none", value |-> "none"]

\* parseCSVString: the rows of CSV text
ParseCSVString(input) ==
  CASE input.text = "csv" -> [ok |-> TRUE, value |-> input.value]

\* JSON.parse: the value of JSON text, a SyntaxError for anything else
JSONParse(input) ==
  IF input.text = "json" THEN [ok |-> TRUE, value |-> input.value]
  ELSE [ok |-> FALSE, value |-> "none"]

\* an analyzeBias that reports on an empty record array instead of refusing it
AnalyzeBiasAcceptingEmpty(input, fileType) ==
  LET parsed == IF input.isString
                  THEN IF fileType = "csv" THEN ParseCSVString(input) ELSE JSONParse(input)
                  ELSE [ok |-> TRUE, value |-> input.value]
      data == IF parsed.value = "object" THEN "array" ELSE parsed.value
  IN  IF ~parsed.ok THEN [ok |-> FALSE, error |-> ErrParse, results |-> "none"]
      ELSE IF data \notin {"array", "emptyArray"}
        THEN [ok |-> FALSE, error |-> ErrShape, results |-> "none"]
      ELSE [ok |-> TRUE, error |-> "", results |-> "bias_report"]

\* analyzeBias, up to the start of the analysis: parse, normalise to an array,
\* refuse an empty one
AnalyzeBias(input, fileType) ==
  LET parsed == IF input.isString
                  THEN IF fileType = "csv" THEN ParseCSVString(input) ELSE JSONParse(input)
                  ELSE [ok |-> TRUE, value |-> input.value]
      data == IF parsed.value = "object" THEN "array" ELSE parsed.value
  IN  IF ~parsed.ok THEN [ok |-> FALSE, error |-> ErrParse, results |-> "none"]
      ELSE IF data \notin {"array", "emptyArray"}
        THEN [ok |-> FALSE, error |-> ErrShape, results |-> "none"]
      ELSE IF data = "emptyArray"
        THEN [ok |-> FALSE, error |-> ErrEmpty, results |-> "none"]
      ELSE [ok |-> TRUE, error |-> "", results |-> "bias_report"]

\* ------------------------------------------------------ disparate impact
\* JSON null, the value of a missing cell
Null == "null"

\* row[column]
Cell(row, column) == IF column \in DOMAIN row THEN row[column] ELSE Null

\* calculateDisparateImpact's results: null, NaN, or the number num / den
NullImpact == [kind |-> "null", num |-> 0, den |-> 1]
NaNImpact == [kind |-> "NaN", num |-> 0, den |-> 1]
Number(num, den) == [kind |-> "number", num |-> num, den |-> den]
NoImpact == [kind |-> "idle", num |-> 0, den |-> 1]

\* [...new Set(seq)]: the distinct elements in order of first appearance
RECURSIVE Distinct(_)
Distinct(seq) ==
  IF seq = <<>> THEN <<>>
  ELSE LET front == Distinct(SubSeq(seq, 1, Len(seq) - 1))
           last == seq[Len(seq)]
       IN  IF \E i \in DOMAIN front : front[i] = last THEN front ELSE Append(front, last)

\* the outcomes counted as favorable
IsFavorable(outcome) == outcome \in {"1", "true", "yes", "approved"}

\* the rows the counting loop does not skip
Counted(data, outcomeColumn, protectedAttribute) ==
  { i \in DOMAIN data : /\ Cell(data[i], protectedAttribute) # Null
                        /\ Cell(data[i], outcomeColumn) # Null }

\* favorableOutcomes[value] after the counting loop
FavorableOutcomes(data, outcomeColumn, protectedAttribute, value) ==
  LET rows == { i \in Counted(data, outcomeColumn, protectedAttribute) :
                  Cell(data[i], protectedAttribute) = value }
  IN  [positive |-> Cardinality({ i \in rows : IsFavorable(Cell(data[i], outcomeColumn)) }),
       total |-> Cardinality(rows)]

\* one element of rates; rate is positive / total, or 0 / 1 for an empty group
GroupRate(value, counts) ==
  [group |-> value,
   num |-> IF counts.total > 0 THEN counts.positive ELSE 0,
   den |-> IF counts.total > 0 THEN counts.total ELSE 1,
   count |-> counts.total]

\* a.rate - b.rate <= 0
RateAtMost(a, b) == a.num * b.den <= b.num * a.den

\* rates.sort((a, b) => a.rate - b.rate): ascending, and stable, so equal rates
\* keep their order
RECURSIVE SortByRate(_)
SortByRate(seq) ==
  IF seq = <<>> THEN <<>>
  ELSE LET sorted == SortByRate(SubSeq(seq, 1, Len(seq) - 1))
           last == seq[Len(seq)]
           k == Cardinality({ i \in DOMAIN sorted : RateAtMost(sorted[i], last) })
       IN  SubSeq(sorted, 1, k) \o <<last>> \o SubSeq(sorted, k + 1, Len(sorted))

\* calculateDisparateImpact(data, outcomeColumn, protectedAttribute); "" is an
\* absent column name
CalculateDisparateImpact(data, outcomeColumn, protectedAttribute) ==
  IF data = <<>> \/ outcomeColumn = "" \/ protectedAttribute = "" THEN NullImpact
  ELSE
    LET attributeValues == Distinct([i \in DOMAIN data |-> Cell(data[i], protectedAttribute)])
        rates == SortByRate(
                   [i \in DOMAIN attributeValues |->
                      GroupRate(attributeValues[i],
                                FavorableOutcomes(data, outcomeColumn, protectedAttribute,
                                                  attributeValues[i]))])
        lowest == rates[1]
        highest == rates[Len(rates)]
    IN  IF Len(attributeValues) < 2 THEN NullImpact
        ELSE IF lowest.count = 0 \/ highest.count = 0 THEN NullImpact
        ELSE IF highest.num = 0 THEN NaNImpact
        ELSE Number(lowest.num * highest.den, lowest.den * highest.num)

\* impact < 0.8
BelowFourFifths(r) == r.kind = "number" /\ 5 * r.num < 4 * r.den

\* findSensitiveAttributes: the sensitive keys of the first row
SensitiveKeys == {"gender"}
FindSensitiveAttributes(data) ==
  IF data = <<>> THEN {} ELSE DOMAIN data[1] \cap SensitiveKeys

\* the cells findMissingValues counts and calculateDistribution leaves out:
\* null, undefined and the empty string
Missing(value) == value \in {Null, ""}

\* findMissingValues: the number of missing cells of a column
MissingCount(data, column) ==
  Cardinality({ i \in DOMAIN data : Missing(Cell(data[i], column)) })

\* Number(value) for the numerals of the record sets here; every other
\* string gives NaN
Numerals == {"-10", "2", "10"}
IsNaN(value) == value \notin Numerals
ToNumber(value) ==
  CASE value = "-10" -> 0 - 10
    [] value = "2" -> 2
    [] value = "10" -> 10

\* seq.filter(val => val !== null && val !== undefined && val !== '')
RECURSIVE Present(_)
Present(seq) ==
  IF seq = <<>> THEN <<>>
  ELSE LET front == Present(SubSeq(seq, 1, Len(seq) - 1))
       IN  IF Missing(seq[Len(seq)]) THEN front ELSE Append(front, seq[Len(seq)])

\* values.sort((a, b) => a - b)
RECURSIVE SortNumbers(_)
SortNumbers(seq) ==
  IF seq = <<>> THEN <<>>
  ELSE LET sorted == SortNumbers(SubSeq(seq, 1, Len(seq) - 1))
           last == seq[Len(seq)]
           k == Cardinality({ i \in DOMAIN sorted : sorted[i] <= last })
       IN  SubSeq(sorted, 1, k) \o <<last>> \o SubSeq(sorted, k + 1, Len(sorted))

RECURSIVE Sum(_)
Sum(seq) == IF seq = <<>> THEN 0 ELSE seq[Len(seq)] + Sum(SubSeq(seq, 1, Len(seq) - 1))

\* the properties calculateNumericStats adds to an entry
NumericKeys ==
  {"min", "max", "mean", "median", "stdDev", "quartiles", "outliers", "outliersPercent"}

\* an entry with { count: 0 } only
EmptyDistribution ==
  [keys |-> {"count"}, count |-> 0, uniqueValues |-> 0, distribution |-> <<>>,
   sum |-> 0, sumSquares |-> 0, min |-> 0, max |-> 0, median2 |-> 0,
   q1 |-> 0, q3 |-> 0, outliers |-> 0]

\* calculateNumericStats(values), values not empty.  mean is sum / count, the
\* variance is (count * sumSquares - sum * sum) / count^2, median2 is twice
\* the median; an outlier is below q1 - 1.5 * iqr or above q3 + 1.5 * iqr.
CalculateNumericStats(numbers) ==
  LET values == SortNumbers(numbers)
      n == Len(values)
      q1 == values[(n \div 4) + 1]
      q3 == values[((3 * n) \div 4) + 1]
      iqr == q3 - q1
  IN  [sum |-> Sum(values),
       sumSquares |-> Sum([i \in 1..n |-> values[i] * values[i]]),
       min |-> values[1],
       max |-> values[n],
       median2 |-> IF n % 2 = 0 THEN values[n \div 2] + values[(n \div 2) + 1]
                   ELSE 2 * values[(n \div 2) + 1],
       q1 |-> q1,
       q3 |-> q3,
       outliers |-> Cardinality({ i \in 1..n : \/ 2 * values[i] < 2 * q1 - 3 * iqr
                                               \/ 2 * values[i] > 2 * q3 + 3 * iqr })]

\* a calculateDistribution that never adds the numeric statistics
CalculateDistributionCountsOnly(data, column) ==
  IF data = <<>> \/ column \notin DOMAIN data[1] THEN EmptyDistribution
  ELSE
    LET values == Present([i \in DOMAIN data |-> Cell(data[i], column)])
        distinct == { values[i] : i \in DOMAIN values }
    IN  IF values = <<>> THEN EmptyDistribution
        ELSE [EmptyDistribution EXCEPT
                !.keys = {"count", "uniqueValues", "distribution"},
                !.count = Len(values),
                !.uniqueValues = Cardinality(distinct),
                !.distribution =
                   [v \in distinct |-> Cardinality({ i \in DOMAIN values : values[i] = v })]]

\* calculateDistribution(data, column)
CalculateDistribution(data, column) ==
  IF data = <<>> \/ column \notin DOMAIN data[1] THEN EmptyDistribution
  ELSE
    LET values == Present([i \in DOMAIN data |-> Cell(data[i], column)])
        distinct == { values[i] : i \in DOMAIN values }
        counted == [EmptyDistribution EXCEPT
                      !.keys = {"count", "uniqueValues", "distribution"},
                      !.count = Len(values),
                      !.uniqueValues = Cardinality(distinct),
                      !.distribution =
                         [v \in distinct |->
                            Cardinality({ i \in DOMAIN values : values[i] = v })]]
        stats == CalculateNumericStats([i \in DOMAIN values |-> ToNumber(values[i])])
    IN  IF values = <<>> THEN EmptyDistribution
        ELSE IF \A i \in DOMAIN values : ~IsNaN(values[i])
          THEN [counted EXCEPT !.keys = @ \cup NumericKeys,
                               !.sum = stats.sum, !.sumSquares = stats.sumSquares,
                               !.min = stats.min, !.max = stats.max,
                               !.median2 = stats.median2, !.q1 = stats.q1, !.q3 = stats.q3,
                               !.outliers = stats.outliers]
          ELSE counted

\* stats.stdDev && stats.mean && Math.abs(stats.stdDev / stats.mean) > 2
Skewed(stats) ==
  /\ "stdDev" \in stats.keys
  /\ stats.count * stats.sumSquares - stats.sum * stats.sum > 0
  /\ stats.sum # 0
  /\ stats.count * stats.sumSquares > 5 * stats.sum * stats.sum

\* the columns flagged at exactly a tenth of the records as well
HighMissingColumnsFromTenth(data) ==
  { c \in DOMAIN data[1] : MissingCount(data, c) > 0 /\ 10 * MissingCount(data, c) >= Len(data) }

\* the columns whose missing count / totalRecords > 0.1
HighMissingColumns(data) ==
  { c \in DOMAIN data[1] : MissingCount(data, c) > 0 /\ 10 * MissingCount(data, c) > Len(data) }

\* an element of potentialIssues; attribute is the set of the names joined
\* with ', '
Issue(attribute, issue, severity) ==
  [attribute |-> attribute, issue |-> issue, severity |-> severity]

NoReport == [kind |-> "idle", totalRecords |-> 0, sensitiveAttributes |-> {},
             distributionStats |-> <<>>, missingValues |-> <<>>,
             skewedDistributions |-> {}, outliers |-> <<>>,
             disparateImpact |-> <<>>, potentialIssues |-> {}]
ThrownReport == [NoReport EXCEPT !.kind = "thrown"]

\* analyzeBias on a parsed record array, from 'Start analysis' on ("" is an
\* absent targetColumn); the random numbers of the result are left out
AnalyzeBiasReport(data, targetColumn) ==
  IF data = <<>> THEN ThrownReport
  ELSE
    LET sensitiveAttributes == FindSensitiveAttributes(data)
        columns == DOMAIN data[1]
        distributions == [c \in columns |-> CalculateDistribution(data, c)]
        missing == { c \in columns : MissingCount(data, c) > 0 }
        skewedDistributions == { c \in columns : Skewed(distributions[c]) }
        withOutliers == { c \in columns : distributions[c].outliers > 0 }
        computed == IF targetColumn # ""
                      THEN { a \in sensitiveAttributes :
                               CalculateDisparateImpact(data, targetColumn, a) # NullImpact }
                      ELSE {}
        disparateImpact == [a \in computed |-> CalculateDisparateImpact(data, targetColumn, a)]
        highMissingColumns == HighMissingColumns(data)
        targetDist == IF targetColumn # "" /\ targetColumn \in columns
                        THEN distributions[targetColumn] ELSE EmptyDistribution
        counts == { targetDist.distribution[v] : v \in DOMAIN targetDist.distribution }
    IN  [kind |-> "report",
         totalRecords |-> Len(data),
         sensitiveAttributes |-> sensitiveAttributes,
         distributionStats |-> distributions,
         missingValues |-> [c \in missing |-> MissingCount(data, c)],
         skewedDistributions |-> skewedDistributions,
         outliers |-> [c \in withOutliers |-> distributions[c].outliers],
         disparateImpact |-> disparateImpact,
         potentialIssues |->
           (IF highMissingColumns # {}
              THEN {Issue(highMissingColumns, "High rate of missing values", "medium")}
              ELSE {})
           \cup (IF skewedDistributions # {}
                   THEN {Issue(skewedDistributions, "Skewed distributions", "low")}
                   ELSE {})
           \cup { Issue({a}, "Disparate impact detected", "high") :
                    a \in { b \in computed : BelowFourFifths(disparateImpact[b]) } }
           \cup (IF /\ targetDist.uniqueValues > 0 /\ targetDist.uniqueValues <= 5
                     /\ \E y, z \in counts : y > 10 * z
                   THEN {Issue({targetColumn}, "Severe class imbalance", "high")}
                   ELSE {})]

\* ------------------------------------------------------------ PII detector
\* getContext's default contextSize
ContextSize == 30

\* the characters of a string: a character of the text, known by its position,
\* an asterisk, or a dot of an ellipsis
Char(i) == [kind |-> "text", pos |-> i]
Star == [kind |-> "*", pos |-> 0]
Dot == [kind |-> ".", pos |-> 0]
Ellipsis == <<Dot, Dot, Dot>>

\* a text of n characters
TextOf(n) == [i \in 1..n |-> Char(i)]

Max(a, b) == IF a >= b THEN a ELSE b
Min(a, b) == IF a <= b THEN a ELSE b

\* str.slice(from, to) and str.slice(from) for indexes that are not negative
Slice(str, from, to) == SubSeq(str, Min(from, Len(str)) + 1, Min(to, Len(str)))
SliceFrom(str, from) == Slice(str, from, Len(str))

\* '*'.repeat(n)
Repeat(c, n) == [i \in 1..n |-> c]

\* getContext(text, startIndex, endIndex, contextSize)
GetContext(text, startIndex, endIndex, contextSize) ==
  LET contextStart == Max(0, startIndex - contextSize)
      contextEnd == Min(Len(text), endIndex + contextSize)
      sliced == Slice(text, contextStart, contextEnd)
      led == IF contextStart > 0 THEN Ellipsis \o sliced ELSE sliced
      context == IF contextEnd < Len(text) THEN led \o Ellipsis ELSE led
      piiLength == endIndex - startIndex
      asterisks == Repeat(Star, piiLength)
      piiContextStart == startIndex - contextStart
  IN  Slice(context, 0, piiContextStart) \o asterisks
        \o SliceFrom(context, piiContextStart + piiLength)

\* a match before getContext is called for it
NewMatch(n, startIndex, endIndex) ==
  [text |-> TextOf(n), startIndex |-> startIndex, endIndex |-> endIndex,
   found |-> FALSE, context |-> <<>>]
NoMatch == NewMatch(0, 0, 0)

\* what an extracted document's text holds: nothing to find, an e-mail
\* address, an e-mail address and a phone number; or no text at all, for which
\* text.matchAll throws
Undefined == "undefined"
Texts == {"plain", "email", "email and phone", Undefined}

\* the findings of detectPii's loop over PII_PATTERNS and their matches
Finding(type, document) ==
  [type |-> type, filename |-> document.filename, path |-> document.path]
MatchesOf(document) ==
  CASE document.text = "plain" -> <<>>
    [] document.text = "email" -> <<Finding("email", document)>>
    [] document.text = "email and phone" ->
         <<Finding("email", document), Finding("phone_number", document)>>

\* detectPii(document): the findings, or a throw
DetectPii(document) ==
  IF document.text = Undefined THEN [thrown |-> TRUE, findings |-> <<>>]
  ELSE [thrown |-> FALSE, findings |-> MatchesOf(document)]

\* the accumulators of detectPiiInDocuments before the loop
NoFindings == [allFindings |-> <<>>, processedDocuments |-> 0, documentSummary |-> <<>>]

\* a loop that gives up at the first document whose detection throws
RECURSIVE DetectLoopAborting(_)
DetectLoopAborting(documents) ==
  IF documents = <<>> THEN NoFindings
  ELSE LET acc == DetectLoopAborting(SubSeq(documents, 1, Len(documents) - 1))
           document == documents[Len(documents)]
           r == DetectPii(document)
       IN  IF r.thrown \/ acc.processedDocuments < Len(documents) - 1 THEN acc
           ELSE [allFindings |-> acc.allFindings \o r.findings,
                 processedDocuments |-> acc.processedDocuments + 1,
                 documentSummary |-> Append(acc.documentSummary,
                    [filename |-> document.filename, fileType |-> document.fileType,
                     piiCount |-> Len(r.findings)])]

\* the for loop of detectPiiInDocuments: try detectPii, catch and log
RECURSIVE DetectLoop(_)
DetectLoop(documents) ==
  IF documents = <<>> THEN NoFindings
  ELSE LET acc == DetectLoop(SubSeq(documents, 1, Len(documents) - 1))
           document == documents[Len(documents)]
           r == DetectPii(document)
       IN  IF r.thrown THEN acc
           ELSE [allFindings |-> acc.allFindings \o r.findings,
                 processedDocuments |-> acc.processedDocuments + 1,
                 documentSummary |-> Append(acc.documentSummary,
                    [filename |-> document.filename, fileType |-> document.fileType,
                     piiCount |-> Len(r.findings)])]

\* detectPiiInDocuments(documents)
DetectPiiInDocuments(documents) ==
  LET acc == DetectLoop(documents)
  IN  [findings |-> acc.allFindings,
       totalDocuments |-> Len(documents),
       processedDocuments |-> acc.processedDocuments,
       piiDetected |-> Len(acc.allFindings) > 0,
       documentSummary |-> acc.documentSummary]

\* a batch before detectPiiInDocuments is called for it
NewBatch(documents) ==
  [documents |-> documents, returned |-> FALSE, result |-> DetectPiiInDocuments(<<>>)]
NoBatch == NewBatch(<<>>)

DetectorIdle == match = NoMatch /\ batch = NoBatch

\* no processData call has been made
NoSync ==
  [pc |-> "none", options |-> Options("none", 0, 0, "none", 0, 0),
   analysisId |-> 0, failedId |-> 0, input |-> "none", error |-> "none"]
SyncIdle == sync = NoSync

\* ------------------------------------------------------------------- queue
\* InMemoryQueue.add: the job object
NewJob(data, opts) ==
  [data |-> data, opts |-> opts, attemptsMade |-> 0,
   state |-> "waiting", pc |-> "idle",
   analysisRecord |-> NoRecord, resultsS3Path |-> NullPath, error |-> "",
   results |-> "none", fetched |-> FALSE,
   runs |-> 0, finished |-> 0, delays |-> <<>>]

\* 2^n
RECURSIVE Pow2(_)
Pow2(n) == IF n = 0 THEN 1 ELSE 2 * Pow2(n - 1)

\* a retry test that counts the first run as one of the attempts
ShouldRetryCountingFirstRun(job) ==
  job.opts.attempts # 0 /\ job.attemptsMade + 1 < job.opts.attempts

\* InMemoryQueue.processJob's retry test, on the count before the increment
ShouldRetry(job) ==
  job.opts.attempts # 0 /\ job.attemptsMade < job.opts.attempts

\* InMemoryQueue.processJob's delay, computed after attemptsMade++
RetryDelay(opts, attemptsMade) ==
  LET delay == IF opts.delay # 0 THEN opts.delay ELSE FallbackDelay
  IN  IF opts.backoffType = "exponential"
        THEN delay * Pow2(attemptsMade - 1)
        ELSE delay

\* processJob's catch: the job after its handler threw
AfterThrow(job) ==
  IF ShouldRetry(job)
    THEN [job EXCEPT !.attemptsMade = @ + 1,
                     !.delays = Append(@, RetryDelay(job.opts, job.attemptsMade + 1)),
                     !.state = "delayed", !.pc = "idle", !.finished = @ + 1]
    ELSE [job EXCEPT !.state = "failed", !.pc = "idle", !.finished = @ + 1]

\* processJob's try: the job after its handler returned
AfterReturn(job) ==
  [job EXCEPT !.state = "completed", !.pc = "idle", !.finished = @ + 1]

\* ------------------------------------------------------- queueAnalysisJob
Init ==
  /\ analyses = <<>>
  /\ activities = EmptyBag
  /\ artifacts = {}
  /\ jobs = <<>>
  /\ procs = <<>>
  /\ faults = 0
  /\ clock = 1
  /\ resultsBucket \in BOOLEAN
  /\ jobOptions \in JobOptions
  /\ processors = 0
  /\ limit = MaxAnalyses
  /\ direct = 0
  /\ records = <<>>
  /\ impact = NoImpact
  /\ report = NoReport
  /\ DetectorIdle
  /\ SyncIdle

\* initAnalysisProcessor: analysisQueue.process(handler), called once while
\* the server's modules load, before any request is served; a server that
\* never calls it runs with no processor
InitAnalysisProcessor ==
  /\ processors = 0
  /\ analyses = <<>> /\ jobs = <<>>
  /\ processors' = 1
  /\ UNCHANGED <<analyses, activities, artifacts, jobs, procs, faults, clock, env>>

NewProc(kind, o, pc) == [kind |-> kind, options |-> o, pc |-> pc, error |-> ""]

\* a payload built without the tenant id
JobDataWithoutTenant(id, o, hasS3) ==
  [analysisId |-> id, tenantId |-> 0, source |-> o.source,
   datasetId |-> o.datasetId, hasS3 |-> hasS3, webhookDataId |-> o.webhookDataId,
   analysisType |-> o.analysisType, initiatedById |-> o.initiatedById]

\* the job payload queueAnalysisJob builds (hasS3: s3Bucket and s3Key are set)
JobData(id, o, hasS3) ==
  [analysisId |-> id, tenantId |-> o.tenantId, source |-> o.source,
   datasetId |-> o.datasetId, hasS3 |-> hasS3, webhookDataId |-> o.webhookDataId,
   analysisType |-> o.analysisType, initiatedById |-> o.initiatedById]

\* the error queueAnalysisJob's try block throws before adding the job, or ""
QueueError(o) ==
  IF o.source = "upload" /\ o.datasetId # 0
    THEN IF ~DatasetFound(o.datasetId, o.tenantId) \/ ~Datasets[o.datasetId].hasS3
           THEN ErrQueueDataset ELSE ""
  ELSE IF o.source = "webhook" /\ o.webhookDataId = 0
    THEN ErrQueueWebhook
  ELSE ""

IsProc(p, kind, pc) ==
  p \in DOMAIN procs /\ procs[p].kind = kind /\ procs[p].pc = pc

\* queueAnalysisJob through analysisQueue.add: the record is created 'pending',
\* the dataset is looked up, and the job is added unless a check throws
QueueAnalysisJob(o) ==
  /\ Len(analyses) < limit
  /\ analyses' = Append(analyses, NewAnalysis(o))
  /\ LET id == Len(analyses) + 1
         err == QueueError(o)
     IN \/ /\ err = ""
           /\ jobs' = Append(jobs,
                NewJob(JobData(id, o, o.source = "upload" /\ o.datasetId # 0), jobOptions))
           /\ procs' = Append(procs, NewProc("queue", o, "setQueued"))
           /\ UNCHANGED faults
        \/ /\ err # ""
           /\ procs' = Append(procs, [NewProc("queue", o, "catch") EXCEPT !.error = err])
           /\ UNCHANGED <<jobs, faults>>
        \/ /\ o.source = "upload" /\ o.datasetId # 0
           /\ CanFault
           /\ faults' = faults + 1
           /\ procs' = Append(procs, [NewProc("queue", o, "catch") EXCEPT !.error = ErrStore])
           /\ UNCHANGED jobs
  /\ UNCHANGED <<activities, artifacts, clock, env, processors>>

\* await storage.updateAnalysisStatus(analysis.id, "queued")
QueueSetQueued(p) ==
  /\ IsProc(p, "queue", "setQueued")
  /\ \/ /\ analyses' = UpdateAnalysisStatus(p, "queued", NullPath)
        /\ procs' = [procs EXCEPT ![p].pc = "logQueued"]
        /\ UNCHANGED faults
     \/ /\ CanFault
        /\ faults' = faults + 1
        /\ procs' = [procs EXCEPT ![p].pc = "catch", ![p].error = ErrStore]
        /\ UNCHANGED analyses
  /\ UNCHANGED <<activities, artifacts, jobs, clock, env, processors>>

\* await storage.logActivity({action: "analysis_queued", ...}); return analysis.id
QueueLogQueued(p) ==
  /\ IsProc(p, "queue", "logQueued")
  /\ LET o == procs[p].options
     IN \/ /\ activities' =
                LogActivity(Activity("analysis_queued", p, o.tenantId, o.initiatedById))
           /\ procs' = [procs EXCEPT ![p].pc = "returned"]
           /\ UNCHANGED faults
        \/ /\ CanFault
           /\ faults' = faults + 1
           /\ procs' = [procs EXCEPT ![p].pc = "catch", ![p].error = ErrStore]
           /\ UNCHANGED activities
  /\ UNCHANGED <<analyses, artifacts, jobs, clock, env, processors>>

\* queueAnalysisJob's catch: mark the analysis failed (a store error here is
\* logged and dropped), then re-throw
QueueCatch(p) ==
  /\ IsProc(p, "queue", "catch")
  /\ \/ /\ analyses' = UpdateAnalysisStatus(p, "failed", Message(procs[p].error))
        /\ UNCHANGED faults
     \/ /\ CanFault
        /\ faults' = faults + 1
        /\ UNCHANGED analyses
  /\ procs' = [procs EXCEPT ![p].pc = "thrown"]
  /\ UNCHANGED <<activities, artifacts, jobs, clock, env, processors>>

\* ------------------------------------ the handler of initAnalysisProcessor
IsJob(j, state, pc) ==
  j \in DOMAIN jobs /\ jobs[j].state = state /\ jobs[j].pc = pc

\* a handler that, on an error, puts its own job back for another run instead
\* of leaving that to processJob
CaughtAndRequeued(j, err) ==
  [jobs EXCEPT ![j].state = "delayed", ![j].pc = "idle", ![j].error = err]

\* a handler step that threw: remember the error, go to the catch block
Caught(j, err) == [jobs EXCEPT ![j].pc = "catch", ![j].error = err]

\* the guard against reprocessing
SkipsProcessing(record, attemptsMade) ==
  record.status \in Terminal /\ attemptsMade = 0

\* processJob calls the handler, which runs to the end of
\* 1. fetch and verify the analysis record
HandlerGetAnalysis(j) ==
  LET d == jobs[j].data
      record == GetAnalysis(d.analysisId, d.tenantId)
      job == [jobs[j] EXCEPT !.state = "active", !.runs = @ + 1,
                             !.analysisRecord = NoRecord,
                             !.resultsS3Path = NullPath, !.error = ""]
  IN \/ /\ IF ~record.found
             THEN jobs' = [jobs EXCEPT ![j] =
                             [job EXCEPT !.pc = "catch", !.error = ErrNotFound]]
           ELSE IF SkipsProcessing(record, job.attemptsMade)
             THEN jobs' = [jobs EXCEPT ![j] =
                             AfterReturn([job EXCEPT !.analysisRecord = record])]
           ELSE jobs' = [jobs EXCEPT ![j] =
                             [job EXCEPT !.analysisRecord = record,
                                         !.pc = "setProcessing"]]
        /\ UNCHANGED faults
     \/ /\ CanFault
        /\ faults' = faults + 1
        /\ jobs' = [jobs EXCEPT ![j] = [job EXCEPT !.pc = "catch", !.error = ErrStore]]

\* processJob called for the waiting jobs in any order (a timer of arbitrary
\* delay in place of process.nextTick)
JobStartAnyOrder(j) ==
  /\ IsJob(j, "waiting", "idle")
  /\ IF processors = 0
       THEN jobs' = [jobs EXCEPT ![j].state = "unprocessed"] /\ UNCHANGED faults
       ELSE HandlerGetAnalysis(j)
  /\ UNCHANGED <<analyses, activities, artifacts, procs, clock, env, processors>>

\* process.nextTick(() => this.processJob(job)): the callbacks run in the
\* order they were scheduled.  With no processor registered processJob warns
\* and returns, and the job is never looked at again
JobStart(j) ==
  /\ IsJob(j, "waiting", "idle")
  /\ \A i \in 1..(j - 1) : jobs[i].state # "waiting"
  /\ IF processors = 0
       THEN jobs' = [jobs EXCEPT ![j].state = "unprocessed"] /\ UNCHANGED faults
       ELSE HandlerGetAnalysis(j)
  /\ UNCHANGED <<analyses, activities, artifacts, procs, clock, env, processors>>

\* setTimeout(() => this.processJob(job), retryDelay) fires
RetryFire(j) ==
  /\ IsJob(j, "delayed", "idle")
  /\ HandlerGetAnalysis(j)
  /\ UNCHANGED <<analyses, activities, artifacts, procs, clock, env, processors>>

\* await storage.updateAnalysisStatus(analysisId, "processing")
HandlerSetProcessing(j) ==
  /\ IsJob(j, "active", "setProcessing")
  /\ \/ /\ analyses' = UpdateAnalysisStatus(jobs[j].data.analysisId, "processing", NullPath)
        /\ jobs' = [jobs EXCEPT ![j].pc = "work"]
        /\ UNCHANGED faults
     \/ /\ CanFault
        /\ faults' = faults + 1
        /\ jobs' = Caught(j, ErrStore)
        /\ UNCHANGED analyses
  /\ UNCHANGED <<activities, artifacts, procs, clock, env, processors>>

\* the fileType the handler derives from the dataset's content type
HandlerFileType(mime) ==
  IF mime = "text/csv" THEN "csv"
  ELSE IF mime = "application/json" THEN "json"
  ELSE mime

\* step 2 of a handler whose webhook lookup ignores the tenant
IngestAnyTenant(d) ==
  IF d.source = "upload" /\ d.datasetId # 0 /\ d.hasS3
    THEN IF ~DatasetFound(d.datasetId, d.tenantId)
           THEN [ok |-> FALSE, error |-> ErrDataset, fetch |-> FALSE,
                 input |-> NoInput, fileType |-> "json"]
           ELSE [ok |-> TRUE, error |-> "", fetch |-> TRUE,
                 input |-> [isString |-> TRUE,
                            text |-> Datasets[d.datasetId].content.text,
                            value |-> Datasets[d.datasetId].content.value],
                 fileType |-> HandlerFileType(Datasets[d.datasetId].fileType)]
  ELSE IF d.source = "webhook" /\ d.webhookDataId # 0
    THEN IF d.webhookDataId \notin DOMAIN WebhookDataRows
           THEN [ok |-> FALSE, error |-> ErrWebhook, fetch |-> FALSE,
                 input |-> NoInput, fileType |-> "json"]
           ELSE [ok |-> TRUE, error |-> "", fetch |-> FALSE,
                 input |-> [isString |-> FALSE, text |-> "none",
                            value |-> WebhookDataRows[d.webhookDataId].payload],
                 fileType |-> "json"]
  ELSE [ok |-> FALSE, error |-> ErrInvalidJob, fetch |-> FALSE,
        input |-> NoInput, fileType |-> "json"]

\* 2. get the input data, when no store or object-storage call throws; fetch
\* tells whether getS3ObjectContent is called
Ingest(d) ==
  IF d.source = "upload" /\ d.datasetId # 0 /\ d.hasS3
    THEN IF ~DatasetFound(d.datasetId, d.tenantId)
           THEN [ok |-> FALSE, error |-> ErrDataset, fetch |-> FALSE,
                 input |-> NoInput, fileType |-> "json"]
           ELSE [ok |-> TRUE, error |-> "", fetch |-> TRUE,
                 input |-> [isString |-> TRUE,
                            text |-> Datasets[d.datasetId].content.text,
                            value |-> Datasets[d.datasetId].content.value],
                 fileType |-> HandlerFileType(Datasets[d.datasetId].fileType)]
  ELSE IF d.source = "webhook" /\ d.webhookDataId # 0
    THEN IF ~WebhookDataFound(d.webhookDataId, d.tenantId)
           THEN [ok |-> FALSE, error |-> ErrWebhook, fetch |-> FALSE,
                 input |-> NoInput, fileType |-> "json"]
           ELSE [ok |-> TRUE, error |-> "", fetch |-> FALSE,
                 input |-> [isString |-> FALSE, text |-> "none",
                            value |-> WebhookDataRows[d.webhookDataId].payload],
                 fileType |-> "json"]
  ELSE [ok |-> FALSE, error |-> ErrInvalidJob, fetch |-> FALSE,
        input |-> NoInput, fileType |-> "json"]

\* 3. perform the analysis
Analyze(type, input, fileType) ==
  IF type = "bias_analysis" THEN AnalyzeBias(input, fileType)
  ELSE IF type = "pii_detection" THEN [ok |-> TRUE, error |-> "", results |-> "skipped"]
  ELSE [ok |-> FALSE, error |-> ErrType, results |-> "none"]

\* steps 2 and 3 of a handler that marks the analysis completed before it
\* stores the result
HandlerWorkSkippingSave(j) ==
  /\ IsJob(j, "active", "work")
  /\ jobs' = [jobs EXCEPT ![j].pc = "setCompleted"]
  /\ UNCHANGED <<analyses, activities, artifacts, procs, faults, clock, env, processors>>

\* steps 2 and 3 of the handler
HandlerWork(j) ==
  /\ IsJob(j, "active", "work")
  /\ LET d == jobs[j].data
         in == Ingest(d)
         r == Analyze(d.analysisType, in.input, in.fileType)
     IN \/ /\ in.ok /\ r.ok
           /\ jobs' = [jobs EXCEPT ![j].pc = "save", ![j].results = r.results,
                                   ![j].fetched = @ \/ in.fetch]
           /\ UNCHANGED faults
        \/ /\ ~in.ok
           /\ jobs' = Caught(j, in.error)
           /\ UNCHANGED faults
        \/ /\ in.ok /\ ~r.ok
           /\ jobs' = [Caught(j, r.error) EXCEPT ![j].fetched = @ \/ in.fetch]
           /\ UNCHANGED faults
        \/ /\ in.fetch
           /\ CanFault
           /\ faults' = faults + 1
           /\ jobs' = [Caught(j, ErrS3) EXCEPT ![j].fetched = TRUE]
        \/ /\ in.error # ErrInvalidJob
           /\ CanFault
           /\ faults' = faults + 1
           /\ jobs' = Caught(j, ErrStore)
  /\ UNCHANGED <<analyses, activities, artifacts, procs, clock, env, processors>>

\* 4. saveResultsToS3: null when no bucket is configured or the put throws
HandlerSave(j) ==
  /\ IsJob(j, "active", "save")
  /\ LET d == jobs[j].data
         key == S3Path(d.tenantId, d.analysisId, clock)
     IN \/ /\ ~resultsBucket
           /\ jobs' = [jobs EXCEPT ![j].resultsS3Path = NullPath, ![j].pc = "setCompleted"]
           /\ UNCHANGED <<artifacts, faults, clock>>
        \/ /\ resultsBucket
           /\ artifacts' = artifacts \cup {key}
           /\ clock' = clock + 1
           /\ jobs' = [jobs EXCEPT ![j].resultsS3Path = key, ![j].pc = "setCompleted"]
           /\ UNCHANGED faults
        \/ /\ resultsBucket
           /\ CanFault
           /\ faults' = faults + 1
           /\ clock' = clock + 1
           /\ jobs' = [jobs EXCEPT ![j].resultsS3Path = NullPath, ![j].pc = "setCompleted"]
           /\ UNCHANGED artifacts
  /\ UNCHANGED <<analyses, activities, procs, env, processors>>

\* 5. await storage.updateAnalysisStatus(analysisId, "completed", resultsS3Path)
HandlerSetCompleted(j) ==
  /\ IsJob(j, "active", "setCompleted")
  /\ \/ /\ analyses' = UpdateAnalysisStatus(jobs[j].data.analysisId, "completed",
                                            jobs[j].resultsS3Path)
        /\ jobs' = [jobs EXCEPT ![j].pc = "logCompleted"]
        /\ UNCHANGED faults
     \/ /\ CanFault
        /\ faults' = faults + 1
        /\ jobs' = Caught(j, ErrStore)
        /\ UNCHANGED analyses
  /\ UNCHANGED <<activities, artifacts, procs, clock, env, processors>>

\* 6. log the completion activity and return
HandlerLogCompleted(j) ==
  /\ IsJob(j, "active", "logCompleted")
  /\ LET d == jobs[j].data
     IN \/ /\ activities' = LogActivity(
                Activity("analysis_completed", d.analysisId, d.tenantId, d.initiatedById))
           /\ jobs' = [jobs EXCEPT ![j] = AfterReturn(@)]
           /\ UNCHANGED faults
        \/ /\ CanFault
           /\ faults' = faults + 1
           /\ jobs' = Caught(j, ErrStore)
           /\ UNCHANGED activities
  /\ UNCHANGED <<analyses, artifacts, procs, clock, env, processors>>

\* the third argument of the catch block's status write
FailureMessage(error) == Message(error)

\* catch: await storage.updateAnalysisStatus(analysisId, "failed", `Error: ...`);
\* a store error here is logged and dropped together with the activity entry,
\* and the handler re-throws
HandlerCatch(j) ==
  /\ IsJob(j, "active", "catch")
  /\ \/ /\ analyses' = UpdateAnalysisStatus(jobs[j].data.analysisId, "failed",
                                            FailureMessage(jobs[j].error))
        /\ jobs' = [jobs EXCEPT ![j].pc = "logFailed"]
        /\ UNCHANGED faults
     \/ /\ CanFault
        /\ faults' = faults + 1
        /\ jobs' = [jobs EXCEPT ![j] = AfterThrow(@)]
        /\ UNCHANGED analyses
  /\ UNCHANGED <<activities, artifacts, procs, clock, env, processors>>

\* catch: await storage.logActivity({action: "analysis_failed", ...}), then
\* throw error
HandlerLogFailed(j) ==
  /\ IsJob(j, "active", "logFailed")
  /\ LET d == jobs[j].data
         rec == jobs[j].analysisRecord
     IN \/ /\ activities' = LogActivity(
                Activity("analysis_failed", d.analysisId,
                         Or(d.tenantId, Or(rec.tenantId, 0)),
                         Or(d.initiatedById, Or(rec.initiatedById, 0))))
           /\ UNCHANGED faults
        \/ /\ CanFault
           /\ faults' = faults + 1
           /\ UNCHANGED activities
  /\ jobs' = [jobs EXCEPT ![j] = AfterThrow(@)]
  /\ UNCHANGED <<analyses, artifacts, procs, clock, env, processors>>

\* ------------------------------------ handleFileUpload (document upload path)
\* the analysis handleFileUpload creates for the uploaded documents
UploadRequests == { Options("upload", 0, 0, "pii_detection", 1, 7) }

\* handleFileUpload up to the un-awaited call of processDocumentAnalysis
HandleFileUpload(o) ==
  /\ Len(analyses) < limit
  /\ analyses' = Append(analyses, NewAnalysis(o))
  /\ procs' = Append(procs, NewProc("upload", o, "setProcessing"))
  /\ UNCHANGED <<activities, artifacts, jobs, faults, clock, env, processors>>

UploadCaught(p) == [procs EXCEPT ![p].pc = "catch", ![p].error = ErrStore]

\* await storage.updateAnalysisStatus(analysisId, 'processing')
UploadSetProcessing(p) ==
  /\ IsProc(p, "upload", "setProcessing")
  /\ \/ /\ analyses' = UpdateAnalysisStatus(p, "processing", NullPath)
        /\ procs' = [procs EXCEPT ![p].pc = "logStarted"]
        /\ UNCHANGED faults
     \/ /\ CanFault
        /\ faults' = faults + 1
        /\ procs' = UploadCaught(p)
        /\ UNCHANGED analyses
  /\ UNCHANGED <<activities, artifacts, jobs, clock, env, processors>>

\* await storage.logActivity({action: 'analysis_started', ...}), then
\* detectPiiInDocuments and fs.writeFileSync of the results file
UploadLogStarted(p) ==
  /\ IsProc(p, "upload", "logStarted")
  /\ LET o == procs[p].options
     IN \/ /\ activities' =
                LogActivity(Activity("analysis_started", p, o.tenantId, o.initiatedById))
           /\ artifacts' = artifacts \cup {FilePath(o.tenantId, p)}
           /\ procs' = [procs EXCEPT ![p].pc = "setCompleted"]
           /\ UNCHANGED faults
        \/ /\ CanFault
           /\ faults' = faults + 1
           /\ activities' =
                LogActivity(Activity("analysis_started", p, o.tenantId, o.initiatedById))
           /\ procs' = [procs EXCEPT ![p].pc = "catch", ![p].error = ErrFs]
           /\ UNCHANGED artifacts
        \/ /\ CanFault
           /\ faults' = faults + 1
           /\ procs' = UploadCaught(p)
           /\ UNCHANGED <<activities, artifacts>>
  /\ UNCHANGED <<analyses, jobs, clock, env, processors>>

\* await storage.updateAnalysisStatus(analysisId, 'completed', resultsPath)
UploadSetCompleted(p) ==
  /\ IsProc(p, "upload", "setCompleted")
  /\ \/ /\ analyses' = UpdateAnalysisStatus(p, "completed",
                                            FilePath(procs[p].options.tenantId, p))
        /\ procs' = [procs EXCEPT ![p].pc = "logCompleted"]
        /\ UNCHANGED faults
     \/ /\ CanFault
        /\ faults' = faults + 1
        /\ procs' = UploadCaught(p)
        /\ UNCHANGED analyses
  /\ UNCHANGED <<activities, artifacts, jobs, clock, env, processors>>

\* await storage.logActivity({action: 'analysis_completed', ...})
UploadLogCompleted(p) ==
  /\ IsProc(p, "upload", "logCompleted")
  /\ LET o == procs[p].options
     IN \/ /\ activities' =
                LogActivity(Activity("analysis_completed", p, o.tenantId, o.initiatedById))
           /\ procs' = [procs EXCEPT ![p].pc = "returned"]
           /\ UNCHANGED faults
        \/ /\ CanFault
           /\ faults' = faults + 1
           /\ procs' = UploadCaught(p)
           /\ UNCHANGED activities
  /\ UNCHANGED <<analyses, artifacts, jobs, clock, env, processors>>

\* catch: await storage.updateAnalysisStatus(analysisId, 'failed'); a store
\* error here leaves the catch block (the promise rejects)
UploadCatch(p) ==
  /\ IsProc(p, "upload", "catch")
  /\ \/ /\ analyses' = UpdateAnalysisStatus(p, "failed", NullPath)
        /\ procs' = [procs EXCEPT ![p].pc = "logFailed"]
        /\ UNCHANGED faults
     \/ /\ CanFault
        /\ faults' = faults + 1
        /\ procs' = [procs EXCEPT ![p].pc = "thrown"]
        /\ UNCHANGED analyses
  /\ UNCHANGED <<activities, artifacts, jobs, clock, env, processors>>

\* catch: await storage.logActivity({action: 'analysis_failed', ...})
UploadLogFailed(p) ==
  /\ IsProc(p, "upload", "logFailed")
  /\ LET o == procs[p].options
     IN \/ /\ activities' =
                LogActivity(Activity("analysis_failed", p, o.tenantId, o.initiatedById))
           /\ procs' = [procs EXCEPT ![p].pc = "returned"]
           /\ UNCHANGED faults
        \/ /\ CanFault
           /\ faults' = faults + 1
           /\ procs' = [procs EXCEPT ![p].pc = "thrown"]
           /\ UNCHANGED activities
  /\ UNCHANGED <<analyses, artifacts, jobs, clock, env, processors>>

\* ---------------------------------------------------------- specification
Ids == DOMAIN jobs \cup DOMAIN procs

Next ==
  \/ InitAnalysisProcessor
  \/ \E o \in RequestOptions : QueueAnalysisJob(o)
  \/ \E p \in Ids : QueueSetQueued(p)
  \/ \E p \in Ids : QueueLogQueued(p)
  \/ \E p \in Ids : QueueCatch(p)
  \/ \E j \in Ids : JobStart(j)
  \/ \E j \in Ids : RetryFire(j)
  \/ \E j \in Ids : HandlerSetProcessing(j)
  \/ \E j \in Ids : HandlerWork(j)
  \/ \E j \in Ids : HandlerSave(j)
  \/ \E j \in Ids : HandlerSetCompleted(j)
  \/ \E j \in Ids : HandlerLogCompleted(j)
  \/ \E j \in Ids : HandlerCatch(j)
  \/ \E j \in Ids : HandlerLogFailed(j)
  \/ \E o \in UploadRequests : HandleFileUpload(o)
  \/ \E p \in Ids : UploadSetProcessing(p)
  \/ \E p \in Ids : UploadLogStarted(p)
  \/ \E p \in Ids : UploadSetCompleted(p)
  \/ \E p \in Ids : UploadLogCompleted(p)
  \/ \E p \in Ids : UploadCatch(p)
  \/ \E p \in Ids : UploadLogFailed(p)

Spec == Init /\ [][Next]_vars

\* The event loop runs every callback that is ready and every awaited call
\* settles: a step that can be taken is eventually taken.
FairSpec == Spec /\ WF_vars(Next)

\* ------------------------------------------- two requests, no store faults
\* The queue path alone, with two queueAnalysisJob calls and a store and an
\* object storage that never throw.
InitPair ==
  /\ analyses = <<>>
  /\ activities = EmptyBag
  /\ artifacts = {}
  /\ jobs = <<>>
  /\ procs = <<>>
  /\ faults = MaxStoreFaults
  /\ clock = 1
  /\ resultsBucket \in BOOLEAN
  /\ jobOptions \in JobOptions
  /\ processors = 0
  /\ limit = MaxPair
  /\ direct = 0
  /\ records = <<>>
  /\ impact = NoImpact
  /\ report = NoReport
  /\ DetectorIdle
  /\ SyncIdle

\* the requests of these behaviours: one that succeeds, one whose handler
\* throws (the dataset holds an empty array), one that queueAnalysisJob refuses
QueueRequests ==
  { Options("upload", 1, 0, "bias_analysis", 1, 7),
    Options("upload", 2, 0, "bias_analysis", 1, 7),
    Options("webhook", 0, 0, "bias_analysis", 1, 7) }

NextQueue ==
  \/ InitAnalysisProcessor
  \/ \E o \in QueueRequests : QueueAnalysisJob(o)
  \/ \E p \in Ids : QueueSetQueued(p)
  \/ \E p \in Ids : QueueLogQueued(p)
  \/ \E p \in Ids : QueueCatch(p)
  \/ \E j \in Ids : JobStart(j)
  \/ \E j \in Ids : RetryFire(j)
  \/ \E j \in Ids : HandlerSetProcessing(j)
  \/ \E j \in Ids : HandlerWork(j)
  \/ \E j \in Ids : HandlerSave(j)
  \/ \E j \in Ids : HandlerSetCompleted(j)
  \/ \E j \in Ids : HandlerLogCompleted(j)
  \/ \E j \in Ids : HandlerCatch(j)
  \/ \E j \in Ids : HandlerLogFailed(j)

SpecPair == InitPair /\ [][NextQueue]_vars

\* --------------------------------------------- one request, any job options
\* The queue path with one queueAnalysisJob call, a store that never throws,
\* and a queue that gives the job any of AddOptions.
InitRetry ==
  /\ analyses = <<>>
  /\ activities = EmptyBag
  /\ artifacts = {}
  /\ jobs = <<>>
  /\ procs = <<>>
  /\ faults = MaxStoreFaults
  /\ clock = 1
  /\ resultsBucket \in BOOLEAN
  /\ jobOptions \in AddOptions
  /\ processors = 0
  /\ limit = MaxAnalyses
  /\ direct = 0
  /\ records = <<>>
  /\ impact = NoImpact
  /\ report = NoReport
  /\ DetectorIdle
  /\ SyncIdle

SpecRetry == InitRetry /\ [][NextQueue]_vars

\* ------------------------------------------------- jobs added by any producer
\* The handler takes whatever payload the queue holds.  Besides the job of one
\* queueAnalysisJob call the queue gets a job added directly: a second delivery
\* of the payload queueAnalysisJob builds for analysis 1, or that payload under
\* another tenant's id.
DirectPayloads ==
  { JobData(1, Options("upload", 1, 0, "bias_analysis", 1, 7), TRUE),
    JobData(1, Options("upload", 1, 0, "bias_analysis", 2, 8), TRUE) }

\* analysisQueue.add(data) by a producer other than queueAnalysisJob
QueueAdd(data) ==
  /\ direct > 0
  /\ direct' = direct - 1
  /\ jobs' = Append(jobs, NewJob(data, jobOptions))
  /\ UNCHANGED <<analyses, activities, artifacts, procs, faults, clock,
                 resultsBucket, jobOptions, limit, processors, records, impact, report,
                 detector, sync>>

InitDelivery ==
  /\ analyses = <<>>
  /\ activities = EmptyBag
  /\ artifacts = {}
  /\ jobs = <<>>
  /\ procs = <<>>
  /\ faults = MaxStoreFaults
  /\ clock = 1
  /\ resultsBucket \in BOOLEAN
  /\ jobOptions \in JobOptions
  /\ processors = 0
  /\ limit = MaxAnalyses
  /\ direct = MaxDirectAdds
  /\ records = <<>>
  /\ impact = NoImpact
  /\ report = NoReport
  /\ DetectorIdle
  /\ SyncIdle

NextDelivery ==
  \/ NextQueue
  \/ \E data \in DirectPayloads : QueueAdd(data)

SpecDelivery == InitDelivery /\ [][NextDelivery]_vars

\* ------------------------------------------------- the analyzer on record sets
\* The values of the cells: three groups of the protected attribute and two
\* outcomes, each possibly missing.
Genders == {"female", "male", "other", Null}
Outcomes == {"approved", "denied", Null}
Rows == [gender : Genders, approved : Outcomes]

RECURSIVE SeqsUpTo(_, _)
SeqsUpTo(S, n) ==
  IF n = 0 THEN {<<>>}
  ELSE LET shorter == SeqsUpTo(S, n - 1)
       IN  shorter \cup { Append(q, x) : q \in { r \in shorter : Len(r) = n - 1 }, x \in S }

\* every record set of at most MaxRows rows, before any analyzer call
InitImpact ==
  /\ analyses = <<>>
  /\ activities = EmptyBag
  /\ artifacts = {}
  /\ jobs = <<>>
  /\ procs = <<>>
  /\ faults = 0
  /\ clock = 1
  /\ resultsBucket = FALSE
  /\ jobOptions = NoJobOptions
  /\ processors = 0
  /\ limit = 0
  /\ direct = 0
  /\ records \in SeqsUpTo(Rows, MaxRows)
  /\ impact = NoImpact
  /\ report = NoReport
  /\ DetectorIdle
  /\ SyncIdle

\* analyzeBias's call calculateDisparateImpact(data, targetColumn, attribute),
\* for the outcome column 'approved' and the attribute 'gender'
CalculateImpact ==
  /\ impact = NoImpact
  /\ impact' = CalculateDisparateImpact(records, "approved", "gender")
  /\ UNCHANGED <<analyses, activities, artifacts, jobs, procs, faults, clock,
                 resultsBucket, jobOptions, processors, limit, direct, records, report,
                 detector, sync>>

\* step 3 of the handler: results = await analyzeBias(inputData, fileType),
\* with no targetColumn
HandlerAnalyzeBias ==
  /\ report = NoReport
  /\ report' = AnalyzeBiasReport(records, "")
  /\ UNCHANGED <<analyses, activities, artifacts, jobs, procs, faults, clock,
                 resultsBucket, jobOptions, processors, limit, direct, records, impact,
                 detector, sync>>

NextImpact ==
  \/ CalculateImpact
  \/ HandlerAnalyzeBias

SpecImpact == InitImpact /\ [][NextImpact]_vars

\* ------------------------------------------- the statistics on record sets
\* records with a column of numerals, words and missing cells and a column
\* of words
StatRows == [score : Numerals \cup {"n/a", Null, ""}, city : {"Oslo", Null}]

\* every record set of at most MaxRows such rows
InitStats ==
  /\ analyses = <<>>
  /\ activities = EmptyBag
  /\ artifacts = {}
  /\ jobs = <<>>
  /\ procs = <<>>
  /\ faults = 0
  /\ clock = 1
  /\ resultsBucket = FALSE
  /\ jobOptions = NoJobOptions
  /\ processors = 0
  /\ limit = 0
  /\ direct = 0
  /\ records \in SeqsUpTo(StatRows, MaxRows)
  /\ impact = NoImpact
  /\ report = NoReport
  /\ DetectorIdle
  /\ SyncIdle

NextStats == HandlerAnalyzeBias

SpecStats == InitStats /\ [][NextStats]_vars

\* records with one column, a cell of which is a numeral, null or empty
ColumnRows == [score : {"2", Null, ""}]

\* every record set of at most MaxColumnRows such rows
InitMissing ==
  /\ analyses = <<>>
  /\ activities = EmptyBag
  /\ artifacts = {}
  /\ jobs = <<>>
  /\ procs = <<>>
  /\ faults = 0
  /\ clock = 1
  /\ resultsBucket = FALSE
  /\ jobOptions = NoJobOptions
  /\ processors = 0
  /\ limit = 0
  /\ direct = 0
  /\ records \in SeqsUpTo(ColumnRows, MaxColumnRows)
  /\ impact = NoImpact
  /\ report = NoReport
  /\ DetectorIdle
  /\ SyncIdle

SpecMissing == InitMissing /\ [][NextStats]_vars

\* ------------------------------------------------- the PII detector on texts
\* the state in which nothing of the pipeline or of the analyzer runs
Quiet ==
  /\ analyses = <<>>
  /\ activities = EmptyBag
  /\ artifacts = {}
  /\ jobs = <<>>
  /\ procs = <<>>
  /\ faults = 0
  /\ clock = 1
  /\ resultsBucket = FALSE
  /\ jobOptions = NoJobOptions
  /\ processors = 0
  /\ limit = 0
  /\ direct = 0
  /\ records = <<>>
  /\ impact = NoImpact
  /\ report = NoReport
  /\ sync = NoSync

quiet == <<analyses, activities, artifacts, jobs, procs, faults, clock, resultsBucket,
           jobOptions, processors, limit, direct, records, impact, report, sync>>

\* every non-empty match [startIndex, endIndex) in a text of at most MaxText
\* characters
InitContext ==
  /\ Quiet
  /\ match \in { NewMatch(n, startIndex, endIndex) :
                    n \in 1..MaxText, startIndex \in 0..(MaxText - 1), endIndex \in 1..MaxText }
  /\ match.startIndex < match.endIndex
  /\ match.endIndex <= Len(match.text)
  /\ batch = NoBatch

\* detectPii's finding for one match: context: getContext(text, startIndex, endIndex)
DetectPiiMatch ==
  /\ ~match.found
  /\ match.text # <<>>
  /\ match' = [match EXCEPT !.found = TRUE,
                !.context = GetContext(match.text, match.startIndex, match.endIndex,
                                       ContextSize)]
  /\ UNCHANGED <<quiet, batch>>

NextContext == DetectPiiMatch

SpecContext == InitContext /\ [][NextContext]_vars

\* ---------------------------------------------- the PII detector on batches
\* the extracted documents: two files, each with any of the texts
Documents ==
  { [filename |-> f.filename, path |-> f.path, fileType |-> f.fileType, text |-> t] :
      f \in { [filename |-> "notes.txt", path |-> "/uploads/notes.txt", fileType |-> "txt"],
              [filename |-> "scan.pdf", path |-> "/uploads/scan.pdf", fileType |-> "pdf"] },
      t \in Texts }

\* every list of at most MaxDocuments documents
InitBatch ==
  /\ Quiet
  /\ match = NoMatch
  /\ batch \in { NewBatch(documents) : documents \in SeqsUpTo(Documents, MaxDocuments) }

\* const results = detectPiiInDocuments(documents)
DetectBatch ==
  /\ ~batch.returned
  /\ batch' = [batch EXCEPT !.returned = TRUE,
                            !.result = DetectPiiInDocuments(batch.documents)]
  /\ UNCHANGED <<quiet, match>>

NextBatch == DetectBatch

SpecBatch == InitBatch /\ [][NextBatch]_vars

\* ------------------------------------------------- the synchronous path
\* processData(options) of processors.ts: the analysis runs inside the call
SyncRequests ==
  { Options("upload", 1, 0, "bias_analysis", 1, 7),
    Options("upload", 2, 0, "bias_analysis", 1, 7),
    Options("upload", 2, 0, "pii_detection", 1, 7),
    Options("upload", 3, 0, "bias_analysis", 1, 7),
    Options("upload", 1, 0, "bias_analysis", 2, 8),
    Options("upload", 0, 0, "bias_analysis", 1, 7),
    Options("webhook", 0, 1, "bias_analysis", 1, 7),
    Options("webhook", 0, 0, "data_validation", 1, 7) }

\* the variables a processData call leaves alone
aside == <<jobs, procs, clock, resultsBucket, jobOptions, processors, limit, direct,
           records, impact, report, detector>>

\* an awaited call of the try block throws: control passes to the catch block
SyncThrow(error) ==
  /\ sync' = [sync EXCEPT !.pc = "catch", !.error = error]
  /\ UNCHANGED <<analyses, activities, artifacts>>

\* an awaited store or file-system call of the try block rejects
SyncFault ==
  /\ CanFault
  /\ faults' = faults + 1
  /\ SyncThrow("fault")

\* the "get source data" block: what it assigns to inputData, or what it throws.
\* The storage object has no member webhookData, so the webhook branch ends in
\* a TypeError.
SourceData(o) ==
  IF o.source = "upload" /\ o.datasetId # 0
    THEN IF ~DatasetFound(o.datasetId, o.tenantId)
           THEN [ok |-> FALSE, value |-> "none", error |-> "Dataset not found"]
         ELSE IF Datasets[o.datasetId].fileType = "application/json"
           THEN LET parsed == JSONParse(Datasets[o.datasetId].content)
                IN  [ok |-> parsed.ok, value |-> parsed.value,
                     error |-> IF parsed.ok THEN "none" ELSE "SyntaxError"]
         ELSE IF Datasets[o.datasetId].fileType = "text/csv"
           THEN [ok |-> TRUE, value |-> "array", error |-> "none"]
         ELSE [ok |-> FALSE, value |-> "none", error |-> "Unsupported file type"]
  ELSE IF o.source = "webhook" /\ o.webhookDataId # 0
    THEN [ok |-> FALSE, value |-> "none", error |-> "TypeError"]
  ELSE [ok |-> FALSE, value |-> "none", error |-> "Invalid source or missing ID"]

\* const analysis = await storage.createAnalysis({... status: "processing" ...})
ProcessCreateAnalysis ==
  /\ sync.pc = "start"
  /\ \/ /\ analyses' = Append(analyses, NewAnalysis(sync.options))
        /\ sync' = [sync EXCEPT !.pc = "logStarted", !.analysisId = Len(analyses) + 1]
        /\ UNCHANGED <<activities, artifacts, faults>>
     \/ SyncFault
  /\ UNCHANGED aside

\* await storage.logActivity({action: "analysis_started", ...})
ProcessLogStarted ==
  /\ sync.pc = "logStarted"
  /\ \/ /\ activities' = LogActivity(Activity("analysis_started", sync.analysisId,
                                              sync.options.tenantId,
                                              sync.options.initiatedById))
        /\ sync' = [sync EXCEPT !.pc = "source"]
        /\ UNCHANGED <<analyses, artifacts, faults>>
     \/ SyncFault
  /\ UNCHANGED aside

\* the source data: getDataset, fs.readFile and the parse, or the webhook lookup
ProcessGetSourceData ==
  /\ sync.pc = "source"
  /\ LET source == SourceData(sync.options)
     IN  \/ /\ source.ok
            /\ sync' = [sync EXCEPT !.pc = "analyze", !.input = source.value]
            /\ UNCHANGED <<analyses, activities, artifacts, faults>>
         \/ /\ ~source.ok
            /\ SyncThrow(source.error)
            /\ UNCHANGED faults
         \/ /\ sync.options.source = "upload" /\ sync.options.datasetId # 0
            /\ SyncFault
  /\ UNCHANGED aside

\* results = await runBiasAnalysis / runPiiDetection / validateData(inputData):
\* none of the three throws
ProcessRunAnalysis ==
  /\ sync.pc = "analyze"
  /\ sync' = [sync EXCEPT !.pc = "write"]
  /\ UNCHANGED <<analyses, activities, artifacts, faults>>
  /\ UNCHANGED aside

\* fs.mkdir and fs.writeFile of analysis_<id>.json
ProcessWriteResults ==
  /\ sync.pc = "write"
  /\ \/ /\ artifacts' = artifacts \cup {FilePath(sync.options.tenantId, sync.analysisId)}
        /\ sync' = [sync EXCEPT !.pc = "setCompleted"]
        /\ UNCHANGED <<analyses, activities, faults>>
     \/ SyncFault
  /\ UNCHANGED aside

\* await storage.updateAnalysisStatus(analysis.id, "completed", resultsFilePath)
ProcessSetCompleted ==
  /\ sync.pc = "setCompleted"
  /\ \/ /\ analyses' = UpdateAnalysisStatus(sync.analysisId, "completed",
                                            FilePath(sync.options.tenantId, sync.analysisId))
        /\ sync' = [sync EXCEPT !.pc = "logCompleted"]
        /\ UNCHANGED <<activities, artifacts, faults>>
     \/ SyncFault
  /\ UNCHANGED aside

\* await storage.logActivity({action: "analysis_completed", ...}); return
ProcessLogCompleted ==
  /\ sync.pc = "logCompleted"
  /\ \/ /\ activities' = LogActivity(Activity("analysis_completed", sync.analysisId,
                                              sync.options.tenantId,
                                              sync.options.initiatedById))
        /\ sync' = [sync EXCEPT !.pc = "returned"]
        /\ UNCHANGED <<analyses, artifacts, faults>>
     \/ SyncFault
  /\ UNCHANGED aside

\* the catch block: with a dataset or webhook-data id it calls createAnalysis
\* again, with status "failed"; without one it re-throws.  A throw in here
\* rejects the call.
ProcessCatch ==
  /\ sync.pc = "catch"
  /\ IF sync.options.datasetId # 0 \/ sync.options.webhookDataId # 0
       THEN \/ /\ analyses' = Append(analyses, NewAnalysis(sync.options))
               /\ sync' = [sync EXCEPT !.pc = "logFailed", !.failedId = Len(analyses) + 1]
               /\ UNCHANGED faults
            \/ /\ CanFault
               /\ faults' = faults + 1
               /\ sync' = [sync EXCEPT !.pc = "rejected"]
               /\ UNCHANGED analyses
       ELSE /\ sync' = [sync EXCEPT !.pc = "rejected"]
            /\ UNCHANGED <<analyses, faults>>
  /\ UNCHANGED <<activities, artifacts>>
  /\ UNCHANGED aside

\* await storage.logActivity({action: "analysis_failed", ...}); return analysis
ProcessLogFailed ==
  /\ sync.pc = "logFailed"
  /\ \/ /\ activities' = LogActivity(Activity("analysis_failed", sync.failedId,
                                              sync.options.tenantId,
                                              sync.options.initiatedById))
        /\ sync' = [sync EXCEPT !.pc = "returned"]
        /\ UNCHANGED faults
     \/ /\ CanFault
        /\ faults' = faults + 1
        /\ sync' = [sync EXCEPT !.pc = "rejected"]
        /\ UNCHANGED activities
  /\ UNCHANGED <<analyses, artifacts>>
  /\ UNCHANGED aside

\* one processData call, with any of the requests
InitSync ==
  /\ analyses = <<>>
  /\ activities = EmptyBag
  /\ artifacts = {}
  /\ jobs = <<>>
  /\ procs = <<>>
  /\ faults = 0
  /\ clock = 1
  /\ resultsBucket = FALSE
  /\ jobOptions = NoJobOptions
  /\ processors = 0
  /\ limit = 0
  /\ direct = 0
  /\ records = <<>>
  /\ impact = NoImpact
  /\ report = NoReport
  /\ DetectorIdle
  /\ \E o \in SyncRequests : sync = [NoSync EXCEPT !.pc = "start", !.options = o]

NextSync ==
  \/ ProcessCreateAnalysis
  \/ ProcessLogStarted
  \/ ProcessGetSourceData
  \/ ProcessRunAnalysis
  \/ ProcessWriteResults
  \/ ProcessSetCompleted
  \/ ProcessLogCompleted
  \/ ProcessCatch
  \/ ProcessLogFailed

SpecSync == InitSync /\ [][NextSync]_vars

\* ------------------------------------------------------------------ claims
AnalysisIds == DOMAIN analyses
JobIds == DOMAIN jobs
ProcIds == DOMAIN procs

StatusOf(a) == analyses[a].status

\* this step is a step of job j's handler
HandlerStep(j) == jobs[j].state = "active" /\ jobs'[j] # jobs[j]
\* this step ends with the handler of job j re-throwing
HandlerThrows(j) ==
  /\ jobs'[j].state \in {"delayed", "failed"}
  /\ jobs[j].state = "active"
\* this step is the handler's write of 'failed' / 'processing' / 'completed'
HandlerWritesFailed(j) == jobs[j].pc = "catch" /\ jobs'[j].pc = "logFailed"
HandlerWritesProcessing(j) == jobs[j].pc = "setProcessing" /\ jobs'[j].pc = "work"
HandlerWritesCompleted(j) == jobs[j].pc = "setCompleted" /\ jobs'[j].pc = "logCompleted"
\* this step is queueAnalysisJob's catch writing 'failed', and its throw
QueueWritesFailed(p) ==
  procs[p].kind = "queue" /\ procs[p].pc = "catch" /\ procs'[p].pc = "thrown"
    /\ faults' = faults
QueueThrows(p) ==
  procs[p].kind = "queue" /\ procs[p].pc = "catch" /\ procs'[p].pc = "thrown"
\* the upload path's writes of 'processing' and 'completed'
UploadWritesProcessing(p) ==
  procs[p].kind = "upload" /\ procs[p].pc = "setProcessing" /\ procs'[p].pc = "logStarted"
UploadWritesCompleted(p) ==
  procs[p].kind = "upload" /\ procs[p].pc = "setCompleted" /\ procs'[p].pc = "logCompleted"

HasActivity(bag, action, a) ==
  \E row \in BagToSet(bag) : row.action = action /\ row.entityId = a

\* C1: once an Analysis is 'completed' or 'failed', no later operation changes
\* its status.
C1_TerminalStatusIsFinal ==
  [][\A a \in AnalysisIds :
       StatusOf(a) \in Terminal => analyses'[a].status = StatusOf(a)]_vars

\* C2: a job delivered, on any attempt, for an Analysis that is already
\* 'completed' or 'failed' is a no-op: the attempt writes no status, no result
\* artifact and no activity entry.
C2_TerminalDeliveryIsNoOp ==
  [][\A j \in JobIds :
       (HandlerStep(j) /\ jobs[j].analysisRecord.status \in Terminal)
         => UNCHANGED <<analyses, activities, artifacts>>]_vars

\* C3: every write of status 'processing' finds the Analysis 'queued'.
C3_ProcessingOnlyFromQueued ==
  [][/\ \A j \in JobIds :
          HandlerWritesProcessing(j) => StatusOf(jobs[j].data.analysisId) = "queued"
     /\ \A p \in ProcIds :
          UploadWritesProcessing(p) => StatusOf(p) = "queued"]_vars

\* C4: every write of status 'failed' by queueAnalysisJob's error path or by
\* the handler's catch block finds the Analysis 'processing'.
C4_FailedOnlyFromProcessing ==
  [][/\ \A j \in JobIds :
          HandlerWritesFailed(j) /\ jobs[j].data.analysisId \in AnalysisIds
            => StatusOf(jobs[j].data.analysisId) = "processing"
     /\ \A p \in ProcIds :
          QueueWritesFailed(p) => StatusOf(p) = "processing"]_vars

\* C5: every write of status 'completed' finds the Analysis 'processing'.
C5_CompletedOnlyFromProcessing ==
  [][/\ \A j \in JobIds :
          HandlerWritesCompleted(j) => StatusOf(jobs[j].data.analysisId) = "processing"
     /\ \A p \in ProcIds :
          UploadWritesCompleted(p) => StatusOf(p) = "processing"]_vars

\* the failures backoff is meant for (I/O and transient store errors), and the
\* failures that no retry can cure
Retryable == {ErrS3, ErrStore}
NonRetryable == {ErrNotFound, ErrDataset, ErrWebhook, ErrInvalidJob, ErrType,
                 ErrEmpty, ErrShape, ErrParse}

\* the delays of a job's retries never decrease
NonDecreasing(seq) == \A i \in 1..(Len(seq) - 1) : seq[i] <= seq[i + 1]

\* C6: a job with attempts = 3 and exponential backoff of base 5 s is run at
\* most 3 times, is permanently failed only after exactly 3 runs, and its
\* retry delays never decrease.
C6_ExactlyThreeAttempts ==
  \A j \in JobIds :
    jobs[j].opts = DefaultJobOptions =>
      /\ jobs[j].runs <= DefaultAttempts
      /\ jobs[j].state = "failed" => jobs[j].runs = DefaultAttempts
      /\ NonDecreasing(jobs[j].delays)

\* C7: when the handler re-throws a non-retryable failure, the Analysis is
\* 'failed' and the job is failed for good: no further attempt is scheduled.
C7_NonRetryableFailsOnce ==
  [][\A j \in JobIds :
       (HandlerThrows(j) /\ jobs[j].error \in NonRetryable)
         => /\ jobs'[j].state = "failed"
            /\ analyses'[jobs[j].data.analysisId].status = "failed"]_vars

\* C8: while a job that failed with a retryable error still has a retry
\* remaining, its Analysis is not 'failed'.
C8_FailedOnlyAfterExhaustion ==
  \A j \in JobIds :
    (/\ jobs[j].error \in Retryable
     /\ \/ jobs[j].state = "delayed"
        \/ jobs[j].state = "active" /\ ShouldRetry(jobs[j]))
      => StatusOf(jobs[j].data.analysisId) # "failed"

\* C9: whenever the handler re-throws, or queueAnalysisJob throws after the
\* record was created, the Analysis is 'failed' and an 'analysis_failed'
\* activity entry for it has been written.
C9_FailureWritesStatusAndAudit ==
  [][/\ \A j \in JobIds :
          HandlerThrows(j) =>
            /\ analyses'[jobs[j].data.analysisId].status = "failed"
            /\ HasActivity(activities', "analysis_failed", jobs[j].data.analysisId)
     /\ \A p \in ProcIds :
          QueueThrows(p) =>
            /\ analyses'[p].status = "failed"
            /\ HasActivity(activities', "analysis_failed", p)]_vars

\* C10: after the handler's updateAnalysisStatus(id, 'failed', 'Error: ...')
\* the stored record carries that message.
C10_FailureMessageStored ==
  [][\A j \in JobIds :
       HandlerWritesFailed(j) =>
         analyses'[jobs[j].data.analysisId].resultsPath = FailureMessage(jobs[j].error)]_vars

\* saveResultsToS3 caught an error of the put: a bucket is configured and the
\* handler holds no key
SaveSwallowed(j) == resultsBucket /\ jobs[j].resultsS3Path = NullPath

\* C11: every exception caught on behalf of an Analysis leaves it 'failed': the
\* handler never writes 'completed' after saveResultsToS3 caught a write
\* error, and when the handler re-throws or queueAnalysisJob throws, the
\* Analysis is 'failed'.
C11_NoSwallowedException ==
  [][/\ \A j \in JobIds :
          /\ HandlerWritesCompleted(j) => ~SaveSwallowed(j)
          /\ HandlerThrows(j) /\ jobs[j].data.analysisId \in AnalysisIds
               => analyses'[jobs[j].data.analysisId].status = "failed"
     /\ \A p \in ProcIds :
          QueueThrows(p) => analyses'[p].status = "failed"]_vars

\* C12: a step of the handler of a job whose payload carries tenant T changes
\* no Analysis record of another tenant.
C12_WritesFilteredByTenant ==
  [][\A j \in JobIds :
       HandlerStep(j) =>
         \A a \in AnalysisIds :
           analyses'[a] # analyses[a] => analyses[a].tenantId = jobs[j].data.tenantId]_vars

\* C13: the tenant id of every job payload, of every result artifact key and
\* of every activity entry written for an analysis is the tenant id of the
\* Analysis record, and no activity entry carries tenant id 0.
C13_TenantPropagates ==
  /\ \A j \in JobIds :
       /\ jobs[j].data.analysisId \in AnalysisIds
       /\ jobs[j].data.tenantId = analyses[jobs[j].data.analysisId].tenantId
  /\ \A key \in artifacts :
       /\ key.analysisId \in AnalysisIds
       /\ key.tenantId = analyses[key.analysisId].tenantId
  /\ \A row \in BagToSet(activities) :
       /\ row.entityId \in AnalysisIds
       /\ row.tenantId = analyses[row.entityId].tenantId
       /\ row.tenantId # 0

\* an analysis with a queued job, a stored result artifact and both an
\* 'analysis_queued' and an 'analysis_failed' entry
C13_Witness ==
  \E a \in AnalysisIds :
    /\ \E j \in JobIds : jobs[j].data.analysisId = a
    /\ \E key \in artifacts : key.analysisId = a /\ key.kind = "s3"
    /\ HasActivity(activities, "analysis_queued", a)
    /\ HasActivity(activities, "analysis_failed", a)

\* the jobs for analysis a that are waiting, in flight or scheduled for retry
ActiveJobs(a) ==
  { j \in JobIds : jobs[j].data.analysisId = a
                     /\ jobs[j].state \in {"waiting", "active", "delayed"} }

\* C14: every Analysis that is 'pending', 'queued' or 'processing' has exactly
\* one job that is waiting, in flight or scheduled for retry, and an Analysis
\* that is 'completed' or 'failed' has none.
C14_OneActiveJobPerAnalysis ==
  \A a \in AnalysisIds :
    IF StatusOf(a) \in NonTerminal
      THEN Cardinality(ActiveJobs(a)) = 1
      ELSE ActiveJobs(a) = {}

\* the jobs of queue js that carry analysis id a
JobsFor(js, a) == { j \in DOMAIN js : js[j].data.analysisId = a }
\* this step is queueAnalysisJob returning the analysis id
QueueReturns(p) ==
  procs[p].kind = "queue" /\ procs[p].pc = "logQueued" /\ procs'[p].pc = "returned"
\* the payload carries the ids and the type of the request
CarriesRequest(data, o) ==
  /\ data.tenantId = o.tenantId
  /\ data.initiatedById = o.initiatedById
  /\ data.analysisType = o.analysisType
  /\ data.datasetId = o.datasetId
  /\ data.webhookDataId = o.webhookDataId

\* C15: queueAnalysisJob creates the record 'pending'; when it returns, the
\* queue holds exactly one job with the new analysis id, carrying the
\* request's ids and type; when it throws, the queue holds no job with that
\* analysis id.
C15_EnqueueMatchesOutcome ==
  [][\A p \in DOMAIN procs' :
       /\ p \notin ProcIds => analyses'[p].status = "pending"
       /\ p \in ProcIds /\ QueueReturns(p) =>
            \E j \in DOMAIN jobs' :
              /\ JobsFor(jobs', p) = {j}
              /\ CarriesRequest(jobs'[j].data, procs[p].options)
       /\ p \in ProcIds /\ QueueThrows(p) => JobsFor(jobs', p) = {}]_vars

\* the result artifacts stored for analysis a
ArtifactsOf(a) == { key \in artifacts : key.analysisId = a }

\* C16: whatever the number of attempts, at most one result artifact exists
\* for an analysis id.
C16_OneArtifactPerAnalysis ==
  \A a \in AnalysisIds : Cardinality(ArtifactsOf(a)) <= 1

\* the handler invocations of job j that have started and not yet returned or
\* thrown
InFlight(j) == jobs[j].runs - jobs[j].finished

\* C17: a job never has two handler invocations in flight: an attempt starts
\* only when every earlier attempt of the job has returned or thrown.
C17_SingleOwnership ==
  \A j \in JobIds :
    /\ InFlight(j) \in {0, 1}
    /\ InFlight(j) = 1 <=> jobs[j].state = "active"

\* a retry of a job is in flight, its earlier attempt having thrown
C17_Witness ==
  \E j \in JobIds :
    jobs[j].runs >= 2 /\ jobs[j].state = "active" /\ jobs[j].finished = jobs[j].runs - 1

\* the jobs whose handler is in progress
Running == { j \in JobIds : jobs[j].state = "active" }

\* C18: at no time are the handlers of two different jobs in progress.
C18_StrictlySequential == Cardinality(Running) <= 1

\* C19: jobs are delivered in the order they were added: once the first
\* attempt of a job has started, every job added before it has started its
\* first attempt.
C19_FifoDelivery ==
  \A j1 \in JobIds, j2 \in JobIds :
    (j1 < j2 /\ jobs[j2].runs > 0) => jobs[j1].runs > 0

\* two jobs, added one after the other, have both started their first attempt
C19_Witness ==
  \E j1 \in JobIds, j2 \in JobIds :
    j1 < j2 /\ jobs[j1].runs > 0 /\ jobs[j2].runs > 0

\* job j has finished for good and its Analysis is terminal, 'failed' when the
\* job failed
JobSettled(j) ==
  /\ jobs[j].state \in {"completed", "failed"}
  /\ jobs[j].data.analysisId \in AnalysisIds
  /\ StatusOf(jobs[j].data.analysisId) \in Terminal
  /\ jobs[j].state = "failed" => StatusOf(jobs[j].data.analysisId) = "failed"

\* C20: under fair scheduling every job that was added to the queue ends
\* completed or permanently failed, and from then on its Analysis is terminal
\* ('failed' when the job failed).
C20_EveryJobTerminates ==
  \A j \in 1..MaxAnalyses : <>[](j \in JobIds => JobSettled(j))

\* job j's handler moves from step pc1 to step pc2 in this step
HandlerMoves(j, pc1, pc2) ==
  jobs[j].state = "active" /\ jobs[j].pc = pc1 /\ jobs'[j].pc = pc2
\* job j's handler enters step pc2 in this step
HandlerEnters(j, pc2) ==
  jobs[j].state = "active" /\ jobs[j].pc # pc2 /\ jobs'[j].pc = pc2
\* job j's handler returns from its last step in this step
HandlerSucceeds(j) ==
  jobs[j].state = "active" /\ jobs[j].pc # "idle" /\ jobs'[j].state = "completed"

\* C21: within an attempt the result is stored only after ingestion and
\* analysis succeeded, 'completed' is written only after the result was
\* stored, the 'analysis_completed' entry is written only after 'completed'
\* was written, and an attempt that processed its input returns only by
\* writing that entry.
C21_StepsInOrder ==
  [][\A j \in JobIds :
       LET d == jobs[j].data
           in == Ingest(d)
       IN /\ HandlerEnters(j, "save") =>
               /\ jobs[j].pc = "work"
               /\ in.ok /\ Analyze(d.analysisType, in.input, in.fileType).ok
          /\ HandlerEnters(j, "setCompleted") =>
               /\ jobs[j].pc = "save"
               /\ jobs'[j].resultsS3Path # NullPath => jobs'[j].resultsS3Path \in artifacts'
          /\ HandlerEnters(j, "logCompleted") =>
               /\ jobs[j].pc = "setCompleted"
               /\ analyses'[d.analysisId].status = "completed"
               /\ ~HasActivity(activities', "analysis_completed", d.analysisId)
                    \/ jobs[j].runs > 1
          /\ HandlerSucceeds(j) =>
               /\ jobs[j].pc = "logCompleted"
               /\ activities' = LogActivity(
                    Activity("analysis_completed", d.analysisId, d.tenantId, d.initiatedById))]_vars

\* an attempt has gone through all its steps: the job's handler returned, the
\* result is stored and the 'analysis_completed' entry is written
C21_Witness ==
  \E j \in JobIds :
    /\ jobs[j].state = "completed" /\ jobs[j].resultsS3Path \in artifacts
    /\ HasActivity(activities, "analysis_completed", jobs[j].data.analysisId)

\* an activity entry for analysis a with this action, carrying the tenant id
\* and the initiator of the Analysis record
HasScopedActivity(action, a) ==
  \E row \in BagToSet(activities) :
    /\ row.action = action /\ row.entityId = a
    /\ row.tenantId = analyses[a].tenantId
    /\ row.userId = analyses[a].initiatedById

\* C22: once the request and the job of an Analysis have finished, every
\* transition the Analysis went through has its activity entry: 'queued' and
\* 'processing' for a job whose handler ran, 'completed' or 'failed' for the
\* status it ended in.
C22_EveryTransitionLogged ==
  \A j \in JobIds :
    LET a == jobs[j].data.analysisId
    IN (/\ jobs[j].state \in {"completed", "failed"}
        /\ procs[a].pc \in {"returned", "thrown"})
         => /\ HasScopedActivity("analysis_queued", a)
            /\ HasScopedActivity("analysis_started", a)
            /\ StatusOf(a) = "completed" => HasScopedActivity("analysis_completed", a)
            /\ StatusOf(a) = "failed" => HasScopedActivity("analysis_failed", a)

\* C23: an Analysis that is 'pending', 'queued' or 'processing' has no result
\* locator.
C23_NoLocatorBeforeTerminal ==
  \A a \in AnalysisIds :
    StatusOf(a) \in NonTerminal => analyses[a].resultsPath = NullPath

\* ---------------------------------------------------------------- C25
\* the handler is past steps 2 and 3 of the current attempt
PastWork(j) == jobs[j].pc \in {"save", "setCompleted", "logCompleted"}

\* a dataset job whose stored content type is neither csv nor json
NonParseable(d) ==
  /\ d.source = "upload" /\ d.hasS3
  /\ DatasetFound(d.datasetId, d.tenantId)
  /\ Datasets[d.datasetId].fileType \notin {"text/csv", "application/json"}

\* C25: a dataset job whose content type is neither csv nor json fails once and
\* for all under bias_analysis (the Analysis is 'failed' and the job is not
\* retried), and under pii_detection carries the output of the PII engine.
C25_UnsupportedContentType ==
  \A j \in JobIds :
    LET d == jobs[j].data
    IN  NonParseable(d) =>
          /\ (d.analysisType = "bias_analysis" /\ jobs[j].error = ErrParse
                 /\ jobs[j].pc = "idle")
               => /\ jobs[j].state = "failed"
                  /\ StatusOf(d.analysisId) = "failed"
          /\ (d.analysisType = "pii_detection" /\ PastWork(j))
               => jobs[j].results = "pii_findings"

\* ---------------------------------------------------------------- C26
\* the job's input normalises to an empty record array
EmptyInput(d) == Ingest(d).ok /\ Ingest(d).input.value = "emptyArray"

\* the job's input is a single object, not an array
SingleObject(d) == Ingest(d).ok /\ Ingest(d).input.value = "object"

\* C26: a bias_analysis job whose input normalises to an empty record array
\* gets no result: the analyzer throws 'Input data is empty', the handler never
\* goes on to store anything and the Analysis is never 'completed'; a single
\* object is analysed as a one-element array and is never refused as empty.
C26_EmptyInputIsError ==
  \A j \in JobIds :
    LET d == jobs[j].data
    IN  d.analysisType = "bias_analysis" =>
          /\ EmptyInput(d) =>
                /\ jobs[j].results = "none"
                /\ ~PastWork(j)
                /\ jobs[j].error \in {"", ErrEmpty, ErrS3, ErrStore}
                /\ StatusOf(d.analysisId) # "completed"
                /\ ArtifactsOf(d.analysisId) = {}
          /\ SingleObject(d) =>
                /\ jobs[j].error # ErrEmpty
                /\ PastWork(j) => jobs[j].results = "bias_report"

C26_Witness ==
  \E j \in JobIds :
    /\ EmptyInput(jobs[j].data)
    /\ jobs[j].data.analysisType = "bias_analysis"
    /\ jobs[j].error = ErrEmpty
    /\ jobs[j].state = "failed"
    /\ StatusOf(jobs[j].data.analysisId) = "failed"

\* ---------------------------------------------------------------- C27
\* the webhook data row the job names belongs to another tenant
ForeignWebhookData(d) ==
  /\ d.source = "webhook"
  /\ d.webhookDataId \in DOMAIN WebhookDataRows
  /\ WebhookDataRows[d.webhookDataId].tenantId # d.tenantId

\* C27: a webhook job never calls getS3ObjectContent, in any attempt, and a
\* webhook data row of another tenant is not found: the handler throws
\* 'Webhook data not found' and never goes on with that row's payload.
C27_WebhookIngestion ==
  \A j \in JobIds :
    LET d == jobs[j].data
    IN  d.source = "webhook" =>
          /\ ~jobs[j].fetched
          /\ jobs[j].error # ErrS3
          /\ ForeignWebhookData(d) =>
                /\ ~PastWork(j)
                /\ jobs[j].results = "none"
                /\ jobs[j].error \in {"", ErrWebhook, ErrStore}

C27_Witness ==
  \E j \in JobIds :
    /\ ForeignWebhookData(jobs[j].data)
    /\ jobs[j].error = ErrWebhook
    /\ ~jobs[j].fetched
    /\ jobs[j].state = "failed"

\* ---------------------------------------------------------------- C28
\* the groups of the attribute 'gender' in records, and their counters
GroupsOf(data) == { Cell(data[i], "gender") : i \in DOMAIN data }
CountsOf(g) == FavorableOutcomes(records, "approved", "gender", g)
Populated == { g \in GroupsOf(records) : CountsOf(g).total > 0 }

\* C28: calculateDisparateImpact returns null or a number in [0, 1], never NaN,
\* and returns null whenever some group of the attribute has no counted row.
C28_RatioWithinBounds ==
  impact # NoImpact =>
    /\ impact.kind \in {"null", "number"}
    /\ impact.kind = "number" => 0 <= impact.num /\ impact.num <= impact.den
    /\ (\E g \in GroupsOf(records) : CountsOf(g).total = 0) => impact.kind = "null"

\* ---------------------------------------------------------------- C29
\* g has the lowest (highest) favorable rate of the populated groups
LowestRate(g) ==
  \A h \in Populated :
    CountsOf(g).positive * CountsOf(h).total <= CountsOf(h).positive * CountsOf(g).total
HighestRate(g) ==
  \A h \in Populated :
    CountsOf(h).positive * CountsOf(g).total <= CountsOf(g).positive * CountsOf(h).total

\* C29: the result is null exactly when fewer than two groups are populated,
\* and a number returned is the lowest favorable rate over the highest, taken
\* across the populated groups only.
C29_PopulatedGroupsOnly ==
  impact # NoImpact =>
    /\ impact.kind = "null" <=> Cardinality(Populated) < 2
    /\ impact.kind = "number" =>
          \E lo, hi \in Populated :
            /\ LowestRate(lo) /\ HighestRate(hi)
            /\ impact.num * CountsOf(lo).total * CountsOf(hi).positive
                 = impact.den * CountsOf(lo).positive * CountsOf(hi).total

\* ---------------------------------------------------------------- C30
\* the favorable rates of two populated groups of 'gender' are below four to five
RatioBelowFourFifths ==
  \E lo, hi \in Populated \ {Null} :
    /\ CountsOf(hi).positive > 0
    /\ 5 * CountsOf(lo).positive * CountsOf(hi).total
         < 4 * CountsOf(hi).positive * CountsOf(lo).total

\* C30: the result the handler gets for a record set whose 'gender' groups
\* differ by more than the four-fifths rule allows has a disparate-impact
\* entry for 'gender' and a potential issue of severity 'high' for it.
C30_PipelineFlagsImpact ==
  (report.kind = "report" /\ RatioBelowFourFifths) =>
    /\ "gender" \in DOMAIN report.disparateImpact
    /\ \E issue \in report.potentialIssues :
         "gender" \in issue.attribute /\ issue.severity = "high"

\* ---------------------------------------------------------------- C31
\* the offset of the match in the snippet: its offset in the sliced context,
\* after the leading ellipsis if there is one
MatchOffset ==
  LET contextStart == Max(0, match.startIndex - ContextSize)
  IN  (match.startIndex - contextStart) + (IF contextStart > 0 THEN Len(Ellipsis) ELSE 0)

\* the characters of the text that belong to the match
Matched == { Char(i) : i \in (match.startIndex + 1)..match.endIndex }

\* C31: the snippet has an asterisk at each position of the match and holds
\* no character of the match, with or without a leading ellipsis.
C31_SnippetHidesMatch ==
  match.found =>
    /\ \A k \in 1..(match.endIndex - match.startIndex) :
         /\ MatchOffset + k <= Len(match.context)
         /\ match.context[MatchOffset + k] = Star
    /\ \A i \in DOMAIN match.context : match.context[i] \notin Matched
    /\ Cardinality({ i \in DOMAIN match.context : match.context[i] = Star })
         = match.endIndex - match.startIndex

\* ---------------------------------------------------------------- C32
\* the documents of the batch whose detection does not throw
Detectable == { i \in DOMAIN batch.documents : batch.documents[i].text # Undefined }

RECURSIVE SumPiiCount(_)
SumPiiCount(summary) ==
  IF summary = <<>> THEN 0
  ELSE summary[Len(summary)].piiCount + SumPiiCount(SubSeq(summary, 1, Len(summary) - 1))

\* C32: the batch result counts every document given, counts as processed the
\* documents whose detection did not throw, has one summary entry for each of
\* them, in order, whose counts add up to the number of findings, and reports
\* PII exactly when there is a finding; a document that throws is skipped and
\* the documents after it are still processed.
C32_BatchAggregation ==
  batch.returned =>
    LET r == batch.result
    IN  /\ r.totalDocuments = Len(batch.documents)
        /\ r.processedDocuments = Cardinality(Detectable)
        /\ r.processedDocuments <= r.totalDocuments
        /\ Len(r.documentSummary) = r.processedDocuments
        /\ \A i \in Detectable :
             \E k \in DOMAIN r.documentSummary :
               /\ k = Cardinality({ h \in Detectable : h <= i })
               /\ r.documentSummary[k].filename = batch.documents[i].filename
               /\ r.documentSummary[k].piiCount = Len(MatchesOf(batch.documents[i]))
        /\ SumPiiCount(r.documentSummary) = Len(r.findings)
        /\ r.piiDetected <=> r.findings # <<>>

C32_Witness ==
  /\ batch.returned
  /\ Len(batch.documents) = MaxDocuments
  /\ batch.documents[1].text = Undefined
  /\ batch.documents[2].text = "email and phone"
  /\ batch.result.processedDocuments = 2
  /\ Len(batch.result.findings) >= 2

\* ---------------------------------------------------------------- C33
\* the columns of the records, and the cells of a column that are not null
ColumnsOf(data) == DOMAIN data[1]
NonNull(data, c) == { i \in DOMAIN data : Cell(data[i], c) # Null }

\* every non-null value of the column is a number
AllNumeric(data, c) == \A i \in NonNull(data, c) : Cell(data[i], c) \in Numerals

RequiredStats == {"mean", "median", "stdDev", "quartiles"}

\* C33 as stated: distributionStats has one entry per column and no other
\* key, and every column whose non-null values are all numeric has mean,
\* median, stdDev and quartiles in its entry.
C33_StatsPerColumnAsStated ==
  report.kind = "report" =>
    /\ DOMAIN report.distributionStats = ColumnsOf(records)
    /\ \A c \in ColumnsOf(records) :
         AllNumeric(records, c) => RequiredStats \subseteq report.distributionStats[c].keys

\* C33: distributionStats has one entry per column and no other key, and
\* every column that has a non-null value and whose non-null values are all
\* numeric has mean, median, stdDev and quartiles in its entry, with the
\* quartiles in order between min and max.
C33_StatsPerColumn ==
  report.kind = "report" =>
    /\ DOMAIN report.distributionStats = ColumnsOf(records)
    /\ \A c \in ColumnsOf(records) :
         (NonNull(records, c) # {} /\ AllNumeric(records, c)) =>
           LET entry == report.distributionStats[c]
           IN  /\ RequiredStats \subseteq entry.keys
               /\ entry.count = Cardinality(NonNull(records, c))
               /\ entry.min <= entry.q1 /\ entry.q1 <= entry.q3 /\ entry.q3 <= entry.max
               /\ 2 * entry.min <= entry.median2 /\ entry.median2 <= 2 * entry.max

C33_Witness ==
  /\ report.kind = "report"
  /\ Len(records) = MaxRows
  /\ AllNumeric(records, "score")
  /\ Cardinality(NonNull(records, "score")) = 2
  /\ RequiredStats \subseteq report.distributionStats["score"].keys
  /\ report.distributionStats["score"].min < report.distributionStats["score"].max
  /\ "mean" \notin report.distributionStats["city"].keys

\* ---------------------------------------------------------------- C34
\* the columns named in a 'High rate of missing values' issue
NamedHighMissing ==
  UNION { issue.attribute : issue \in { x \in report.potentialIssues :
                                           x.issue = "High rate of missing values" } }

\* the cells of a column that are null, undefined or empty
MissingCells(c) == { i \in DOMAIN records : Cell(records[i], c) \in {Null, ""} }

\* C34: a column is named in a 'High rate of missing values' issue exactly
\* when more than a tenth of its cells are null, undefined or empty.
C34_HighMissingThreshold ==
  report.kind = "report" =>
    \A c \in ColumnsOf(records) :
      c \in NamedHighMissing <=> 10 * Cardinality(MissingCells(c)) > Len(records)

C34_Witness ==
  /\ report.kind = "report"
  /\ Len(records) = MaxColumnRows
  /\ Cardinality(MissingCells("score")) = 1
  /\ "score" \notin NamedHighMissing

\* ---------------------------------------------------------------- C35
\* queueAnalysisJob's write of 'queued' for analysis p
QueueWritesQueued(p) ==
  /\ procs[p].kind = "queue"
  /\ procs[p].pc = "setQueued" /\ procs'[p].pc = "logQueued"

\* C35: queueAnalysisJob never writes 'queued' over a status the handler has
\* written: at its write the Analysis is still 'pending'.
C35_QueuedNeverAfterHandler ==
  [][\A p \in ProcIds :
       QueueWritesQueued(p) => StatusOf(p) \notin {"processing", "completed", "failed"}]_vars

\* ---------------------------------------------------------------- C36
\* job j is finished and its last attempt went through all its steps and
\* returned (it was not the guard's early return)
LastAttemptSucceeded(j) ==
  /\ jobs[j].state = "completed"
  /\ ~SkipsProcessing(jobs[j].analysisRecord, jobs[j].attemptsMade)

\* job j is finished and its last attempt threw
LastAttemptThrew(j) == jobs[j].state = "failed"

\* C36: once a job has finished for good its Analysis is 'completed' when the
\* last attempt succeeded and 'failed' when it threw.
C36_StatusReflectsLastAttempt ==
  \A j \in JobIds :
    LET a == jobs[j].data.analysisId
    IN  a \in AnalysisIds =>
          /\ LastAttemptSucceeded(j) => StatusOf(a) = "completed"
          /\ LastAttemptThrew(j) => StatusOf(a) = "failed"

\* ---------------------------------------------------------------- C37
\* C37: when the handler writes 'completed' the result artifact is stored and
\* the row gets its locator, with or without a results bucket and whether or
\* not the artifact write threw.
C37_CompletedHasResult ==
  [][\A j \in JobIds :
       (HandlerWritesCompleted(j) /\ jobs[j].data.analysisId \in AnalysisIds) =>
         LET row == analyses'[jobs[j].data.analysisId]
         IN  /\ row.status = "completed"
             /\ row.resultsPath # NullPath
             /\ row.resultsPath \in artifacts]_vars

\* ---------------------------------------------------------------- C38
\* the delays of the retries of job j so far are base * 2^(k-1), k = 1, 2, ...
ExponentialDelays(j, base) ==
  \A k \in DOMAIN jobs[j].delays : jobs[j].delays[k] = base * Pow2(k - 1)

\* what the job's options alone fix: no retry without an attempts option, at
\* most attempts retries, one after each throw until they are used up, and no
\* run at all without a processor
RetriesFollowOptions(j) ==
  LET o == jobs[j].opts
  IN  /\ jobs[j].attemptsMade = Len(jobs[j].delays)
      /\ jobs[j].runs <= Len(jobs[j].delays) + 1
      /\ o.attempts = 0 => jobs[j].delays = <<>> /\ jobs[j].state # "delayed"
      /\ o.attempts > 0 =>
            /\ Len(jobs[j].delays) <= o.attempts
            /\ jobs[j].state = "failed" => Len(jobs[j].delays) = o.attempts
      /\ processors = 0 => jobs[j].runs = 0 /\ jobs[j].state \in {"waiting", "unprocessed"}

\* C38 as stated: retries follow the job's options, and with exponential
\* backoff of base delay d the k-th retry is scheduled d * 2^(k-1) ms after the
\* k-th failure.
C38_RetriesFollowOptionsAsStated ==
  \A j \in JobIds :
    /\ RetriesFollowOptions(j)
    /\ jobs[j].opts.backoffType = "exponential" => ExponentialDelays(j, jobs[j].opts.delay)

\* C38: retries follow the job's options, and with exponential backoff of
\* base delay d > 0 the k-th retry is scheduled d * 2^(k-1) ms after the k-th
\* failure; a base delay of 0 counts as 1000 ms.
C38_RetriesFollowOptions ==
  \A j \in JobIds :
    /\ RetriesFollowOptions(j)
    /\ (jobs[j].opts.backoffType = "exponential" /\ jobs[j].opts.delay > 0)
         => ExponentialDelays(j, jobs[j].opts.delay)
    /\ (jobs[j].opts.backoffType = "exponential" /\ jobs[j].opts.delay = 0)
         => ExponentialDelays(j, FallbackDelay)

C38_Witness ==
  \E j \in JobIds :
    /\ jobs[j].opts = DefaultJobOptions
    /\ jobs[j].state = "failed"
    /\ jobs[j].runs = DefaultAttempts + 1
    /\ jobs[j].delays = <<DefaultBackoffDelay, 2 * DefaultBackoffDelay, 4 * DefaultBackoffDelay>>

\* C39: when a processData call has ended, every Analysis row it created is in
\* a terminal status and there is at most one such row; if the call threw
\* after its first row was created, that row is 'failed'
SyncEnded == sync.pc \in {"returned", "rejected"}
SyncThrewAfterCreate == sync.analysisId # 0 /\ sync.error # "none"
C39_SyncOneTerminalRecord ==
  SyncEnded =>
    /\ Len(analyses) <= 1
    /\ \A a \in AnalysisIds : StatusOf(a) \in Terminal
    /\ SyncThrewAfterCreate => StatusOf(sync.analysisId) = "failed"

====
